---- MODULE Spec2Model ----
(***************************************************************************)
(* A model of the message-processing orchestrator of neta:                 *)
(*   - MessageCache (src/src/neta/utils/cache.py): the content-addressed   *)
(*     dedup cache and its JSON backing file;                              *)
(*   - NetaAutomation (src/src/neta/core/automation.py): the poller, the   *)
(*     per-group locks, the orchestration tasks and their executor calls;  *)
(*   - WhatsAppUI.get_new_messages (src/src/neta/ui/whatsapp.py).          *)
(*                                                                         *)
(* Two threads use the MessageCache object: the event-loop thread ("loop", *)
(* send_response caches the reply) and the executor thread that runs       *)
(* get_new_messages ("exec", _check_for_text caches the incoming text).    *)
(* cache_content is therefore modelled in the steps at which the two can   *)
(* interleave: the dict insert, open(file,'w') with the start of           *)
(* json.dump, and the end of json.dump with the flush at close.            *)
(***************************************************************************)
EXTENDS Integers, Sequences, FiniteSets, TLC

VARIABLES
    cache,        \* MessageCache.cache: the set of cache keys held in memory
    store,        \* the cache file: [valid, keys, len]
    call,         \* per thread: the cache_content call it is inside
    argA, argB,   \* SpecHash/SpecCache: the two contents the calls are made with
    callers,      \* SpecHash/SpecCache: the threads that call cache_content
    ncalls,       \* SpecHash/SpecCache: number of cache_content calls made
    hist,         \* SpecHash/SpecCache: the (content, group) pairs passed to cache_content
    before,       \* SpecHash/SpecCache: per thread, the cache when its call began
    disk,         \* the cache file found when the MessageCache was constructed
    constructed,  \* MessageCache.__init__ has run
    stab,         \* SpecStab: one call of AIPlatformUI._wait_for_new_response
    tl,           \* SpecTab: a TabLock, its clients and the clock
    im,           \* SpecImg: one call of compress_image
    unit,         \* the unit a specification checks on its own: setup, the poller loop, ...
    sd,           \* shutdown: shutdown_event, run_async, the cancellations requested
    config,       \* per group: "ui", "api" (client initialised) or "api_noclient"
    chat,         \* per group: the latest message container of the WhatsApp chat
    current_chat, \* WhatsAppUI.current_chat: the chat selected in the WhatsApp tab
    arrivals,     \* number of incoming messages that arrived so far
    group_locks,  \* NetaAutomation.group_locks: locked() of each group's asyncio.Lock
    processing_messages, \* NetaAutomation.processing_messages
    poller,       \* the message_poller coroutine: [pc, result]
    pexec,        \* the poller's run_in_executor call (switch_to_tab, get_new_messages)
    tasks         \* the handle_message tasks in spawn order

cacheVars == <<cache, store, call>>
extVars == <<stab, sd, tl, im, unit>>
drvVars == <<argA, argB, callers, ncalls, hist, before, disk, constructed, extVars>>
uiVars == <<chat, current_chat, arrivals>>
loopVars == <<group_locks, processing_messages, poller, pexec, tasks>>
loopVarsButPexec == <<group_locks, processing_messages, poller, tasks>>
mainVars == <<config, uiVars, loopVars>>
vars == <<cacheVars, drvVars, mainVars>>

----------------------------------------------------------------------------
(* Bounds of the model. *)
MaxStrLen == 3
MaxCalls == 2
MaxArrivals == 2
MaxTasks == 2

Groups == {"G1", "G2"}
\* config.get_ai_mappings().keys(), in the order of the configuration file
GroupOrder == <<"G1", "G2">>
Threads == {"loop", "exec"}

Max(a, b) == IF a >= b THEN a ELSE b

----------------------------------------------------------------------------
(* Strings: sequences of characters over a small alphabet with an upper-   *)
(* case letter and a whitespace character.                                 *)
Alphabet == {"a", "A", " "}
Whitespace == {" "}
Strings == UNION {[1..n -> Alphabet] : n \in 0..MaxStrLen}

\* str.strip(): drop leading and trailing whitespace.
RECURSIVE LStrip(_)
LStrip(s) == IF s # <<>> /\ Head(s) \in Whitespace THEN LStrip(Tail(s)) ELSE s
RECURSIVE RStrip(_)
RStrip(s) ==
    IF s # <<>> /\ s[Len(s)] \in Whitespace THEN RStrip(SubSeq(s, 1, Len(s) - 1)) ELSE s

\* Variant of Strip that removes leading whitespace only (lstrip).
StripLeading(s) == LStrip(s)

Strip(s) == RStrip(LStrip(s))

\* str.lower()
LowerChar(ch) == IF ch = "A" THEN "a" ELSE ch
Lower(s) == [i \in 1..Len(s) |-> LowerChar(s[i])]

\* hashlib.md5(...).hexdigest(), taken as collision-free: an injective code
\* of the string (bijective base-4 numeration of its characters).
CharCode(ch) == CASE ch = " " -> 1 [] ch = "a" -> 2 [] ch = "A" -> 3
RECURSIVE MD5(_)
MD5(s) == IF s = <<>> THEN 0 ELSE CharCode(Head(s)) + 4 * MD5(Tail(s))

\* Variant of hash_content without the lower-casing.
HashCaseSensitive(content) == MD5(Strip(content))

\* MessageCache.hash_content
hash_content(content) == MD5(Lower(Strip(content)))

\* Variant of the cache key that leaves the group name out.
CacheKeyWithoutGroup(content, group_name) == <<"G1", hash_content(content)>>

\* cache_key = f"{group_name}:{content_key}"
CacheKey(content, group_name) == <<group_name, hash_content(content)>>

\* MessageCache.is_cached
is_cached(content, group_name) == CacheKey(content, group_name) \in cache

----------------------------------------------------------------------------
(* The cache file.  valid: the bytes are one JSON object; keys: its keys;  *)
(* len: its length in entries (the dump of a subset of a dict is shorter   *)
(* than the dump of the dict).  The timestamps stored as values are never  *)
(* read by the program and are left out.                                   *)
ValidFile(keys) == [valid |-> TRUE, keys |-> keys, len |-> Cardinality(keys)]
TruncatedFile == [valid |-> FALSE, keys |-> {}, len |-> 0]

\* MessageCache.load_cache on an existing file: json.load, {} on any error.
load_cache(file) == IF file.valid THEN file.keys ELSE {}

\* Variant of the dictionary store that replaces the map by the new entry.
InsertKeyAlone(c, key) == {key}

\* self.cache[cache_key] = time.time()
InsertKey(c, key) == c \cup {key}

\* Closing a file opened with 'w' flushes the buffered dump at offset 0 over
\* whatever the file holds by then.  The result is the dumped object when
\* the dump completed and nothing longer was written in between.
Overlay(file, snap, complete) ==
    IF complete /\ file.len <= Cardinality(snap)
    THEN ValidFile(snap)
    ELSE [valid |-> FALSE, keys |-> {}, len |-> Max(file.len, Cardinality(snap))]

NoCall == [op |-> "none", content |-> <<>>, group |-> "G1", pc |-> "ret", snap |-> {}]

\* cache_content, first step: hash, build the key, insert it in the dict.
BeginCacheContent(th, content, group_name) ==
    /\ call[th].op = "none"
    /\ cache' = InsertKey(cache, CacheKey(content, group_name))
    /\ call' = [call EXCEPT ![th] = [op |-> "cache_content", content |-> content,
                                     group |-> group_name, pc |-> "open", snap |-> {}]]

\* save_cache: open(self.cache_file, 'w') truncates the file; json.dump
\* starts to iterate the dict.
SaveOpen(th) ==
    /\ call[th].op = "cache_content"
    /\ call[th].pc = "open"
    /\ store' = TruncatedFile
    /\ call' = [call EXCEPT ![th].pc = "close", ![th].snap = cache]
    /\ UNCHANGED cache

\* save_cache: json.dump ends and the with-block closes the file.  If the
\* dict grew while it was iterated json.dump may have raised RuntimeError
\* (caught and logged by save_cache; the partial buffer is flushed).
SaveClose(th) ==
    /\ call[th].op = "cache_content"
    /\ call[th].pc = "close"
    /\ \E complete \in (IF cache = call[th].snap THEN {TRUE} ELSE {TRUE, FALSE}) :
          store' = Overlay(store, call[th].snap, complete)
    /\ call' = [call EXCEPT ![th].pc = "ret"]
    /\ UNCHANGED cache

\* cache_content returns content_key to its caller.
EndCacheContent(th) ==
    /\ call[th].op = "cache_content"
    /\ call[th].pc = "ret"
    /\ call' = [call EXCEPT ![th] = NoCall]

----------------------------------------------------------------------------
(* The orchestrator: configuration, the WhatsApp surface, the event loop.   *)

\* The texts of incoming messages and of backend replies.
MsgTexts == {<<"A">>, <<"a", " ">>, <<"a", "a">>}
ReplyTexts == {<<"A", "a">>}

\* The text GeminiClient._generate_image returns when the generation raises:
\* f"Image generation error: {e.__class__.__name__}: {e}".
ErrorText == <<"A", "A">>
Texts == MsgTexts \cup ReplyTexts

\* Per group: USE_<PLATFORM>_API is not "true" ("ui"); it is "true" and
\* IntegrationManager holds a client for the platform ("api"); it is "true"
\* and no client was initialised, the API key being absent ("api_noclient").
\* The configurations of the two groups the orchestrator is started with:
\* both on the UI path, both on the API path, and the two mixed ones in
\* which G1 has use_api set but no client, or G2 alone is on the API path.
Configurations ==
    {[g \in Groups |-> "ui"],
     [g \in Groups |-> "api"],
     [g \in Groups |-> IF g = "G1" THEN "api_noclient" ELSE "ui"],
     [g \in Groups |-> IF g = "G1" THEN "ui" ELSE "api"]}

NoMessage == [dir |-> "none", text |-> <<>>]
OutMessage == [dir |-> "out", text |-> <<>>]
InMessage(c) == [dir |-> "in", text |-> c]

NoChat == "None"
NoExec == [op |-> "none", st |-> "idle", ok |-> FALSE, queue |-> <<>>,
           group |-> NoChat, text |-> <<>>]

\* No call of _wait_for_new_response is under way.
StabIdle == stab = [pc |-> "idle"]

\* run_async waits for shutdown_event, which is not set; nothing cancelled.
\* event: shutdown_event.is_set(); runner: where run_async stands; ahead:
\* the await of the poller that had completed when the event was set;
\* poller_cancel, cancel_req: cancel() called on the poller, on these tasks;
\* spawned: the number of tasks created when the event was set.
ShutIdle ==
    sd = [event |-> FALSE, runner |-> "wait_event", ahead |-> "none",
          poller_cancel |-> FALSE, cancel_req |-> {}, spawned |-> 0]

\* No call of compress_image.
ImgIdle == im = [pc |-> "idle"]

\* None of the units checked on their own is in use.
UnitIdle == unit = [pc |-> "idle"]

\* No TabLock is in use.
TabIdle == tl = [now |-> 0]

\* The components outside the specification at hand are at rest.
ExtIdle == StabIdle /\ ShutIdle /\ TabIdle /\ ImgIdle /\ UnitIdle

\* The state of NetaAutomation after __init__ and setup, and of the
\* WhatsApp surface: no chat selected, no message in any chat.
InitMain ==
    /\ config \in Configurations
    /\ chat = [g \in Groups |-> NoMessage]
    /\ current_chat = NoChat
    /\ arrivals = 0
    /\ group_locks = [g \in Groups |-> FALSE]
    /\ processing_messages = [g \in Groups |-> {}]
    /\ poller = [pc |-> "top"]
    /\ pexec = NoExec
    /\ tasks = <<>>

\* The orchestrator variables in the specifications of the cache alone.
MainIdle ==
    /\ config = [g \in Groups |-> "ui"]
    /\ chat = [g \in Groups |-> NoMessage]
    /\ current_chat = NoChat
    /\ arrivals = 0
    /\ group_locks = [g \in Groups |-> FALSE]
    /\ processing_messages = [g \in Groups |-> {}]
    /\ poller = [pc |-> "top"]
    /\ pexec = NoExec
    /\ tasks = <<>>

----------------------------------------------------------------------------
(* SpecHash, SpecCache: the MessageCache object alone, under cache_content *)
(* calls.  SpecHash draws the contents from all strings up to MaxStrLen    *)
(* and calls from one thread; SpecCache draws them from Texts and calls    *)
(* from both threads that use the cache in the program.                    *)

\* The backing file at construction: missing, an empty object, or unreadable.
InitialFiles == {"missing", "empty", "garbage"}

\* MessageCache.__init__ / load_cache: a missing file is created holding {}.
\* The cache file as MessageCache.__init__ finds it.  No file: there is
\* nothing to read.
NoFile == [valid |-> FALSE, keys |-> {}, len |-> 0]
FileBefore(f) ==
    CASE f = "missing" -> NoFile
      [] f = "empty" -> ValidFile({})
      [] f = "garbage" -> [valid |-> FALSE, keys |-> {}, len |-> 1]

\* Variant of load_cache that does not create the missing file.
FileLeftAsFound(f) == FileBefore(f)

FileAfterInit(f) == IF f = "garbage" THEN [valid |-> FALSE, keys |-> {}, len |-> 1]
                    ELSE ValidFile({})

InitHash ==
    /\ store = FileAfterInit("missing")
    /\ cache = load_cache(store)
    /\ call = [th \in Threads |-> NoCall]
    /\ argA \in Strings
    /\ argB \in Strings
    /\ callers = {"loop"}
    /\ ncalls = 0
    /\ hist = {}
    /\ before = [th \in Threads |-> {}]
    /\ disk = "missing"
    /\ constructed = TRUE
    /\ MainIdle
    /\ ExtIdle

InitCache ==
    /\ disk \in InitialFiles
    /\ store = FileAfterInit(disk)
    /\ cache = load_cache(store)
    /\ call = [th \in Threads |-> NoCall]
    /\ argA \in Texts
    /\ argB \in Texts
    /\ callers = Threads
    /\ ncalls = 0
    /\ hist = {}
    /\ before = [th \in Threads |-> {}]
    /\ constructed = TRUE
    /\ MainIdle
    /\ ExtIdle

CallCacheContent(th, content, group_name) ==
    /\ constructed
    /\ th \in callers
    /\ ncalls < MaxCalls
    /\ BeginCacheContent(th, content, group_name)
    /\ ncalls' = ncalls + 1
    /\ hist' = hist \cup {<<content, group_name>>}
    /\ before' = [before EXCEPT ![th] = cache]
    /\ UNCHANGED <<store, argA, argB, callers, disk, constructed, extVars, mainVars>>

CallSaveOpen(th) == SaveOpen(th) /\ UNCHANGED <<drvVars, mainVars>>

CallSaveClose(th) == SaveClose(th) /\ UNCHANGED <<drvVars, mainVars>>

CallReturn(th) ==
    /\ EndCacheContent(th)
    /\ UNCHANGED <<cache, store, drvVars, mainVars>>

NextCache ==
    \/ \E th \in Threads, g \in Groups : \E c \in {argA, argB} : CallCacheContent(th, c, g)
    \/ \E th \in Threads : CallSaveOpen(th)
    \/ \E th \in Threads : CallSaveClose(th)
    \/ \E th \in Threads : CallReturn(th)

\* SpecInit: the construction of the MessageCache on a file that is missing,
\* holds {} or does not parse, followed by calls from one thread.
InitConstruct ==
    /\ disk \in InitialFiles
    /\ store = FileBefore(disk)
    /\ cache = {}
    /\ constructed = FALSE
    /\ call = [th \in Threads |-> NoCall]
    /\ argA \in Texts
    /\ argB \in Texts
    /\ callers = {"loop"}
    /\ ncalls = 0
    /\ hist = {}
    /\ before = [th \in Threads |-> {}]
    /\ MainIdle
    /\ ExtIdle

\* MessageCache.__init__: self.cache = self.load_cache()
Construct ==
    /\ ~constructed
    /\ store' = FileAfterInit(disk)
    /\ cache' = load_cache(FileAfterInit(disk))
    /\ constructed' = TRUE
    /\ UNCHANGED <<call, argA, argB, callers, ncalls, hist, before, disk, extVars, mainVars>>

NextInit == Construct \/ NextCache

SpecInit == InitConstruct /\ [][NextInit]_vars

SpecHash == InitHash /\ [][NextCache]_vars

SpecCache == InitCache /\ [][NextCache]_vars

----------------------------------------------------------------------------
(* Spec: the orchestrator.  Coroutines run on the event-loop thread: a     *)
(* step of one runs from one suspension point (an await that suspends) to  *)
(* the next and is atomic with respect to the other coroutines.  Every     *)
(* run_in_executor call runs on a worker thread of the default pool,       *)
(* concurrently with the loop and with the other calls; its coroutine      *)
(* resumes in a later loop step.                                           *)

\* The event-loop thread is not inside a synchronous cache_content call.
LoopFree == call["loop"].op = "none"

\* asyncio.create_task schedules the first step of the task; it runs when
\* the poller suspends (asyncio.sleep), before the poller is resumed.
\* A mutation of NoCreatedTask: the poller may resume before a task it
\* created has run its first step.
CreatedTaskMayWait == TRUE

NoCreatedTask == \A t \in DOMAIN tasks : tasks[t].st # "created"

\* Task.cancel() has been called on the task: its next step raises
\* CancelledError at the await it is suspended in.
CancelRequested(t) == t \in sd.cancel_req

\* The ready queue of the loop is first-in first-out: between the step that
\* sets shutdown_event and the step of run_async it wakes, the poller runs
\* only if the await it is suspended in had completed before.
PollerMayRun == sd.runner # "signalled" \/ sd.ahead = poller.pc

\* A mutation of AfterCycle: a failed cycle ends the poller.
AfterCycleEnds == "ended"

\* Where the poller goes after a detection cycle that failed or found
\* nothing: on to asyncio.sleep and the next pass of its loop.
AfterCycle == "sleep"

\* message_id = f"{message_type}:{message}"
MessageId(message_type, message) == <<message_type, message>>

\* Variant of setup with one lock shared by all the groups.
LockShared(g) == "G1"

\* setup: self.group_locks[group_name] = asyncio.Lock(), one lock per group
LockOf(g) == g

\* asyncio.Lock.locked / acquire (the lock is free) / release
Locked(locks, g) == locks[LockOf(g)]
\* Variant of the lock acquisition that takes nothing.
AcquireNothing(locks, g) == locks


Acquire(locks, g) == [locks EXCEPT ![LockOf(g)] = TRUE]
\* A mutation of Release: the lock stays locked.
ReleaseNothing(locks, g) == locks

Release(locks, g) == [locks EXCEPT ![LockOf(g)] = FALSE]

\* check_messages: the groups whose lock is not locked, in configuration order
AvailableGroups == {g \in Groups : ~Locked(group_locks, g)}
SeqOf(S) == SelectSeq(GroupOrder, LAMBDA g : g \in S)

\* Variant of the path selection that takes the UI path when the platform
\* has no API client.
UsesApiWithClient(g) == config[g] = "api"

\* process_message: use_api and platform_name
UsesApi(g) == config[g] \in {"api", "api_noclient", "api_gemini"}

NewTask(g, message) ==
    [group |-> g, message |-> message, st |-> "created", ex |-> "none",
     ok |-> FALSE, response |-> <<>>]

\* The task states in which the task awaits an executor call that drives
\* the browser: switch_to_tab, send_text_message, select_chat, send_message.
AiUiStates == {"pm_switch", "pm_send"}
SendStates == {"sr_switch1", "sr_select1", "sr_switch2", "sr_select2"}
UiStates == AiUiStates \cup SendStates \cup {"sr_send"}

\* A new incoming message becomes the latest container of the chat of g.
Arrive(g, c) ==
    /\ arrivals < MaxArrivals
    /\ chat' = [chat EXCEPT ![g] = InMessage(c)]
    /\ arrivals' = arrivals + 1
    /\ UNCHANGED <<cacheVars, drvVars, config, current_chat, loopVars>>

(* ------------------------------ the poller ------------------------------ *)

\* message_poller: the loop test, then check_messages up to its first await:
\* run_in_executor(switch_to_tab("WhatsApp")).
PollerCheck ==
    /\ poller.pc \in {"top", "sleep"}
    /\ ~sd.event
    /\ LoopFree
    /\ NoCreatedTask
    /\ poller' = [poller EXCEPT !.pc = "cm_switch"]
    /\ pexec' = [NoExec EXCEPT !.op = "switch", !.st = "running"]
    /\ UNCHANGED <<cacheVars, drvVars, config, uiVars, group_locks,
                   processing_messages, tasks>>

\* worker thread: browser_manager.switch_to_tab("WhatsApp") for the poller
PollerSwitchTab ==
    /\ pexec.op = "switch"
    /\ pexec.st = "running"
    /\ \E ok \in BOOLEAN : pexec' = [pexec EXCEPT !.st = "done", !.ok = ok]
    /\ UNCHANGED <<cacheVars, drvVars, config, uiVars, group_locks,
                   processing_messages, poller, tasks>>

\* check_messages after the tab switch: collect the unlocked groups and
\* submit get_new_messages for them; with none, or a failed switch, the
\* poller goes to its sleep.
PollerAfterSwitch ==
    /\ poller.pc = "cm_switch"
    /\ pexec.st = "done"
    /\ LoopFree
    /\ PollerMayRun
    /\ IF ~pexec.ok \/ AvailableGroups = {}
       THEN /\ poller' = [poller EXCEPT !.pc = AfterCycle]
            /\ pexec' = NoExec
       ELSE /\ poller' = [poller EXCEPT !.pc = "cm_get"]
            /\ pexec' = [NoExec EXCEPT !.op = "gnm", !.st = "running",
                                       !.queue = SeqOf(AvailableGroups)]
    /\ UNCHANGED <<cacheVars, drvVars, config, uiVars, group_locks,
                   processing_messages, tasks>>

\* worker thread, get_new_messages: the next group of the for loop; select
\* its chat unless it is the current one.  outcome "skip": select_chat
\* failed or no message loaded (continue); "abort": WhatsApp not loaded or
\* an exception (return None, None, None).
GnmSelect ==
    /\ pexec.op = "gnm"
    /\ pexec.st = "running"
    /\ IF pexec.queue = <<>>
       THEN /\ pexec' = [NoExec EXCEPT !.op = "gnm", !.st = "done"]
            /\ UNCHANGED current_chat
       ELSE LET g == Head(pexec.queue) IN
            \E outcome \in {"ok", "skip", "abort"} :
               CASE outcome = "ok" ->
                      /\ current_chat' = g
                      /\ pexec' = [pexec EXCEPT !.st = "read", !.group = g]
                 [] outcome = "skip" ->
                      /\ current_chat # g
                      /\ pexec' = [pexec EXCEPT !.queue = Tail(pexec.queue)]
                      /\ UNCHANGED current_chat
                 [] outcome = "abort" ->
                      /\ pexec' = [NoExec EXCEPT !.op = "gnm", !.st = "done"]
                      /\ UNCHANGED current_chat
    /\ UNCHANGED <<cacheVars, drvVars, config, chat, arrivals, loopVarsButPexec>>

\* worker thread, get_new_messages: read the latest container of the chat
\* on display, then _check_for_text: an incoming text that is not cached is
\* cached (cache_content starts) and will be returned; otherwise continue.
GnmRead ==
    /\ pexec.op = "gnm"
    /\ pexec.st = "read"
    /\ LET g == pexec.group
           m == chat[current_chat]
       IN IF m.dir = "in" /\ m.text # <<>> /\ ~is_cached(m.text, g)
          THEN /\ BeginCacheContent("exec", m.text, g)
               /\ pexec' = [pexec EXCEPT !.st = "caching", !.text = m.text]
          ELSE /\ pexec' = [pexec EXCEPT !.st = "running", !.group = NoChat,
                                          !.queue = Tail(pexec.queue)]
               /\ UNCHANGED <<cache, call>>
    /\ UNCHANGED <<store, drvVars, config, uiVars, loopVarsButPexec>>

\* worker thread: cache_content returns, _check_for_text and
\* get_new_messages return (group_name, latest_message, "text").
GnmReturn ==
    /\ pexec.op = "gnm"
    /\ pexec.st = "caching"
    /\ EndCacheContent("exec")
    /\ pexec' = [pexec EXCEPT !.st = "done", !.ok = TRUE, !.queue = <<>>]
    /\ UNCHANGED <<cache, store, drvVars, config, uiVars, loopVarsButPexec>>

\* check_messages after get_new_messages, and the body of the poller loop:
\* the result is dropped if the group's lock is locked by now; a message
\* whose id is in processing_messages is skipped (continue); otherwise a
\* handle_message task is created; then the poller sleeps.
PollerAfterGet ==
    /\ poller.pc = "cm_get"
    /\ pexec.op = "gnm"
    /\ pexec.st = "done"
    /\ LoopFree
    /\ PollerMayRun
    /\ pexec' = NoExec
    /\ LET g == pexec.group
           id == MessageId("text", pexec.text)
       IN IF ~pexec.ok \/ Locked(group_locks, g)
          THEN /\ poller' = [poller EXCEPT !.pc = AfterCycle]
               /\ UNCHANGED tasks
          ELSE IF id \in processing_messages[g]
          THEN /\ poller' = [poller EXCEPT !.pc = "top"]
               /\ UNCHANGED tasks
          ELSE /\ Len(tasks) < MaxTasks
               /\ tasks' = Append(tasks, NewTask(g, pexec.text))
               /\ poller' = [poller EXCEPT !.pc = "sleep"]
    /\ UNCHANGED <<cacheVars, drvVars, config, uiVars, group_locks, processing_messages>>

(* ------------------------ handle_message tasks ------------------------- *)

notTasks == <<cacheVars, drvVars, config, uiVars, poller, pexec>>

\* handle_message's finally (processing_messages.discard) once the group
\* lock has been released by the async with block the task was in.
\* A mutation of Finish: the identifier stays in processing_messages.
FinishKeepsId(t, locks) ==
    /\ group_locks' = locks
    /\ UNCHANGED processing_messages
    /\ tasks' = [tasks EXCEPT ![t].st = "done", ![t].ex = "none", ![t].ok = FALSE]

Finish(t, locks) ==
    LET g == tasks[t].group
        id == MessageId("text", tasks[t].message)
    IN /\ group_locks' = locks
       /\ processing_messages' = [processing_messages EXCEPT ![g] = @ \ {id}]
       /\ tasks' = [tasks EXCEPT ![t].st = "done", ![t].ex = "none", ![t].ok = FALSE]

\* handle_message from its start to the first suspension of
\* process_message: the duplicate test, processing_messages.add, the group
\* lock (the task waits while it is locked), then the executor call of the
\* API path or the tab switch of the UI path.
TaskStart(t) ==
    /\ tasks[t].st \in {"created", "pm_wait"}
    /\ LoopFree
    /\ ~CancelRequested(t)
    /\ LET g == tasks[t].group
           id == MessageId("text", tasks[t].message)
       IN IF tasks[t].st = "created" /\ id \in processing_messages[g]
          THEN /\ tasks' = [tasks EXCEPT ![t].st = "done"]
               /\ UNCHANGED <<group_locks, processing_messages>>
          ELSE /\ processing_messages' = [processing_messages EXCEPT ![g] = @ \cup {id}]
               /\ IF Locked(group_locks, g)
                  THEN /\ tasks' = [tasks EXCEPT ![t].st = "pm_wait"]
                       /\ UNCHANGED group_locks
                  ELSE /\ group_locks' = Acquire(group_locks, g)
                       /\ tasks' = [tasks EXCEPT
                              ![t].st = IF UsesApi(g) THEN "pm_api" ELSE "pm_switch",
                              ![t].ex = "running"]
    /\ UNCHANGED notTasks

\* What the API client of a group can return as response text (<<>>: None).
\* No client for the platform gives (None, None); a client gives its
\* reply, or (None, None) on an error of the API; the Gemini client asked
\* for an image gives a text with the image, (None, None), or the text of
\* the error when the generation raised.
ApiReplies(g) ==
    CASE config[g] = "api" -> ReplyTexts \cup {<<>>}
      [] config[g] = "api_gemini" -> ReplyTexts \cup {<<>>, ErrorText}
      [] OTHER -> {<<>>}

\* worker thread: integration_manager.process_message.
ApiCall(t) ==
    /\ tasks[t].st = "pm_api"
    /\ tasks[t].ex = "running"
    /\ \E r \in ApiReplies(tasks[t].group) :
          tasks' = [tasks EXCEPT ![t].ex = "done", ![t].response = r]
    /\ UNCHANGED <<notTasks, group_locks, processing_messages>>

\* worker thread: browser_manager.switch_to_tab(tab_name) of the UI path
AiSwitchTab(t) ==
    /\ tasks[t].st = "pm_switch"
    /\ tasks[t].ex = "running"
    /\ \E ok \in BOOLEAN : tasks' = [tasks EXCEPT ![t].ex = "done", ![t].ok = ok]
    /\ UNCHANGED <<notTasks, group_locks, processing_messages>>

\* process_message after the tab switch: a failed switch returns
\* (None, None), the lock is released and handle_message ends; otherwise
\* ai_platform_ui.send_text_message is submitted to the executor.
TaskAfterAiSwitch(t) ==
    /\ tasks[t].st = "pm_switch"
    /\ tasks[t].ex = "done"
    /\ LoopFree
    /\ ~CancelRequested(t)
    /\ IF tasks[t].ok
       THEN /\ tasks' = [tasks EXCEPT ![t].st = "pm_send", ![t].ex = "running"]
            /\ UNCHANGED <<group_locks, processing_messages>>
       ELSE Finish(t, Release(group_locks, tasks[t].group))
    /\ UNCHANGED notTasks

\* worker thread: ai_platform_ui.send_text_message returns the reply or None
AiSend(t) ==
    /\ tasks[t].st = "pm_send"
    /\ tasks[t].ex = "running"
    /\ \E r \in ReplyTexts \cup {<<>>} :
          tasks' = [tasks EXCEPT ![t].ex = "done", ![t].response = r]
    /\ UNCHANGED <<notTasks, group_locks, processing_messages>>

\* process_message returns and releases the group lock; handle_message
\* calls send_response if there is a response; send_response takes the
\* group lock (the task waits while it is locked) and submits the switch to
\* the WhatsApp tab.
TaskAfterProcess(t) ==
    /\ \/ tasks[t].st \in {"pm_api", "pm_send"} /\ tasks[t].ex = "done"
       \/ tasks[t].st = "sr_wait"
    /\ LoopFree
    /\ ~CancelRequested(t)
    /\ LET g == tasks[t].group
           released == IF tasks[t].st = "sr_wait" THEN group_locks
                       ELSE Release(group_locks, g)
       IN IF tasks[t].response = <<>>
          THEN Finish(t, released)
          ELSE /\ UNCHANGED processing_messages
               /\ IF Locked(released, g)
                  THEN /\ group_locks' = released
                       /\ tasks' = [tasks EXCEPT ![t].st = "sr_wait", ![t].ex = "none"]
                  ELSE /\ group_locks' = Acquire(released, g)
                       /\ tasks' = [tasks EXCEPT ![t].st = "sr_switch1", ![t].ex = "running"]
    /\ UNCHANGED notTasks

\* worker thread, send_response: switch_to_tab("WhatsApp") or
\* whatsapp_ui.select_chat(group_name); select_chat returns True at once
\* if the chat is the current one and sets current_chat when it succeeds.
SendUiOp(t) ==
    /\ tasks[t].st \in SendStates
    /\ tasks[t].ex = "running"
    /\ LET g == tasks[t].group
           select == tasks[t].st \in {"sr_select1", "sr_select2"}
       IN \E ok \in (IF select /\ current_chat = g THEN {TRUE} ELSE BOOLEAN) :
             /\ tasks' = [tasks EXCEPT ![t].ex = "done", ![t].ok = ok]
             /\ current_chat' = IF select /\ ok THEN g ELSE current_chat
    /\ UNCHANGED <<cacheVars, drvVars, config, chat, arrivals, poller, pexec,
                   group_locks, processing_messages>>

NextSendState(st) ==
    CASE st = "sr_switch1" -> "sr_select1"
      [] st = "sr_select1" -> "sr_switch2"
      [] st = "sr_switch2" -> "sr_select2"
      [] st = "sr_select2" -> "sr_send"

\* send_response between its executor calls: a failed step returns False
\* (the lock is released, handle_message ends), else the next is submitted.
SendStep(t) ==
    /\ tasks[t].st \in SendStates
    /\ tasks[t].ex = "done"
    /\ LoopFree
    /\ ~CancelRequested(t)
    /\ IF tasks[t].ok
       THEN /\ tasks' = [tasks EXCEPT ![t].st = NextSendState(@), ![t].ex = "running"]
            /\ UNCHANGED <<group_locks, processing_messages>>
       ELSE Finish(t, Release(group_locks, tasks[t].group))
    /\ UNCHANGED notTasks

\* worker thread: whatsapp_ui.send_message(text, None) types the text into
\* the chat on display; False with no current chat or on an exception.
WhatsAppSend(t) ==
    /\ tasks[t].st = "sr_send"
    /\ tasks[t].ex = "running"
    /\ \E ok \in (IF current_chat = NoChat THEN {FALSE} ELSE BOOLEAN) :
          /\ tasks' = [tasks EXCEPT ![t].ex = "done", ![t].ok = ok]
          /\ chat' = IF ok THEN [chat EXCEPT ![current_chat] = OutMessage] ELSE chat
    /\ UNCHANGED <<cacheVars, drvVars, config, current_chat, arrivals, poller, pexec,
                   group_locks, processing_messages>>

\* send_response after send_message: on success the text of the response
\* is cached, synchronously on the event-loop thread.
TaskAfterSend(t) ==
    /\ tasks[t].st = "sr_send"
    /\ tasks[t].ex = "done"
    /\ LoopFree
    /\ ~CancelRequested(t)
    /\ IF tasks[t].ok
       THEN /\ BeginCacheContent("loop", tasks[t].response, tasks[t].group)
            /\ tasks' = [tasks EXCEPT ![t].st = "sr_cache", ![t].ex = "none"]
            /\ UNCHANGED <<group_locks, processing_messages>>
       ELSE /\ Finish(t, Release(group_locks, tasks[t].group))
            /\ UNCHANGED <<cache, call>>
    /\ UNCHANGED <<store, drvVars, config, uiVars, poller, pexec>>

\* cache_content returns to send_response, which returns True; the lock is
\* released and handle_message ends.
TaskAfterCache(t) ==
    /\ tasks[t].st = "sr_cache"
    /\ EndCacheContent("loop")
    /\ Finish(t, Release(group_locks, tasks[t].group))
    /\ UNCHANGED <<cache, store, drvVars, config, uiVars, poller, pexec>>

\* The state in which message_poller starts: the cache constructed on a
\* missing file, setup completed (one lock per group, the UI and the
\* integration components in place), no task, nothing being processed.
Init ==
    /\ store = FileAfterInit("missing")
    /\ cache = load_cache(store)
    /\ call = [th \in Threads |-> NoCall]
    /\ argA = <<>> /\ argB = <<>> /\ callers = {} /\ ncalls = 0 /\ hist = {}
    /\ before = [th \in Threads |-> {}] /\ disk = "missing" /\ constructed = TRUE
    /\ InitMain
    /\ ExtIdle

Next ==
    \/ \E g \in Groups, c \in MsgTexts : Arrive(g, c)
    \/ PollerCheck
    \/ PollerSwitchTab
    \/ PollerAfterSwitch
    \/ GnmSelect
    \/ GnmRead
    \/ GnmReturn
    \/ PollerAfterGet
    \/ \E th \in Threads : CallSaveOpen(th)
    \/ \E th \in Threads : CallSaveClose(th)
    \/ \E t \in DOMAIN tasks : TaskStart(t)
    \/ \E t \in DOMAIN tasks : ApiCall(t)
    \/ \E t \in DOMAIN tasks : AiSwitchTab(t)
    \/ \E t \in DOMAIN tasks : TaskAfterAiSwitch(t)
    \/ \E t \in DOMAIN tasks : AiSend(t)
    \/ \E t \in DOMAIN tasks : TaskAfterProcess(t)
    \/ \E t \in DOMAIN tasks : SendUiOp(t)
    \/ \E t \in DOMAIN tasks : SendStep(t)
    \/ \E t \in DOMAIN tasks : WhatsAppSend(t)
    \/ \E t \in DOMAIN tasks : TaskAfterSend(t)
    \/ \E t \in DOMAIN tasks : TaskAfterCache(t)

Spec == Init /\ [][Next]_vars

\* SpecReply: the orchestrator with G1 served by the Gemini client through
\* the API, its messages being requests for an image, and G2 on the UI path.
ReplyConfigurations == {[g \in Groups |-> IF g = "G1" THEN "api_gemini" ELSE "ui"]}

InitReply ==
    /\ store = FileAfterInit("missing")
    /\ cache = load_cache(store)
    /\ call = [th \in Threads |-> NoCall]
    /\ argA = <<>> /\ argB = <<>> /\ callers = {} /\ ncalls = 0 /\ hist = {}
    /\ before = [th \in Threads |-> {}] /\ disk = "missing" /\ constructed = TRUE
    /\ config \in ReplyConfigurations
    /\ chat = [g \in Groups |-> NoMessage]
    /\ current_chat = NoChat
    /\ arrivals = 0
    /\ group_locks = [g \in Groups |-> FALSE]
    /\ processing_messages = [g \in Groups |-> {}]
    /\ poller = [pc |-> "top"]
    /\ pexec = NoExec
    /\ tasks = <<>>
    /\ ExtIdle

SpecReply == InitReply /\ [][Next]_vars

----------------------------------------------------------------------------
(* SpecStab: AIPlatformUI._wait_for_new_response.  Each stability check    *)
(* reads the text of the newest response element; the page may show any    *)
(* text at a check, the element may be stale, the lookup may fail or find  *)
(* no element.                                                             *)

\* max_stable_checks and max_retries of _wait_for_new_response
max_stable_checks == 3
max_retries == 5
force_release_ceiling == 60
acquire_timeout == 30
default_quality == 85
quality_step == 5
quality_floor == 5

\* The number of stability checks one call is followed for.
MaxPolls == 7
MaxClients == 3
TickSeconds == 30
MaxTime == 120

\* The texts the response element shows while the reply is streamed.
PageTexts == {"", "Hel", "Hello"}

\* run / run_text: how many checks in a row, up to the latest, have read the
\* same text, and that text (kept for the properties).
InitStab ==
    /\ stab = [pc |-> "wait", element |-> "", last_text |-> "", stable_count |-> 0,
               max_retries |-> max_retries, polls |-> 0, run |-> 0, run_text |-> "",
               result |-> [kind |-> "none", raw |-> ""]]
    /\ store = FileAfterInit("missing")
    /\ cache = load_cache(store)
    /\ call = [th \in Threads |-> NoCall]
    /\ argA = <<>> /\ argB = <<>> /\ callers = {} /\ ncalls = 0 /\ hist = {}
    /\ before = [th \in Threads |-> {}] /\ disk = "missing" /\ constructed = TRUE
    /\ ShutIdle
    /\ TabIdle
    /\ ImgIdle
    /\ UnitIdle
    /\ MainIdle

stabFrame == <<cacheVars, argA, argB, callers, ncalls, hist, before, disk, constructed, sd, tl,
               im, unit, mainVars>>

\* WebDriverWait(...).until(new_response_appeared): an element with a
\* non-empty text without loading indicator, or TimeoutException (None).
StabAppear ==
    /\ stab.pc = "wait"
    /\ \/ \E t \in PageTexts \ {""} :
             stab' = [stab EXCEPT !.pc = "loop", !.element = t]
       \/ stab' = [stab EXCEPT !.pc = "done"]
    /\ UNCHANGED stabFrame

\* One pass of the while loop that reads the text t.
StabRead(t) ==
    /\ stab.pc = "loop"
    /\ stab.stable_count < max_stable_checks /\ stab.max_retries > 0
    /\ stab' = [stab EXCEPT
                  !.element = t,
                  !.stable_count = IF t = stab.last_text THEN @ + 1 ELSE 0,
                  !.last_text = t,
                  !.polls = IF @ < MaxPolls THEN @ + 1 ELSE @,
                  !.run = IF stab.run > 0 /\ t = stab.run_text THEN @ + 1 ELSE 1,
                  !.run_text = t]
    /\ UNCHANGED stabFrame

\* One pass of the while loop that raises StaleElementReferenceException.
StabStale ==
    /\ stab.pc = "loop"
    /\ stab.stable_count < max_stable_checks /\ stab.max_retries > 0
    /\ stab' = [stab EXCEPT !.max_retries = @ - 1, !.stable_count = 0,
                            !.polls = IF @ < MaxPolls THEN @ + 1 ELSE @, !.run = 0]
    /\ UNCHANGED stabFrame

\* One pass of the while loop that finds no response element or raises
\* another exception: break.
StabBreak ==
    /\ stab.pc = "loop"
    /\ stab.stable_count < max_stable_checks /\ stab.max_retries > 0
    /\ stab' = [stab EXCEPT !.pc = "final", !.polls = IF @ < MaxPolls THEN @ + 1 ELSE @,
                            !.run = 0]
    /\ UNCHANGED stabFrame

\* The while condition fails: enough stable checks, or no retries left.
StabExit ==
    /\ stab.pc = "loop"
    /\ ~(stab.stable_count < max_stable_checks /\ stab.max_retries > 0)
    /\ stab' = [stab EXCEPT !.pc = "final"]
    /\ UNCHANGED stabFrame

\* After the loop: response_element.text is read again and returned, "No
\* response" if it is empty; if the element is stale the newest element is
\* looked up once more and its text returned, None if that fails.
StabReturn ==
    /\ stab.pc = "final"
    /\ \/ \E t \in PageTexts :
             stab' = [stab EXCEPT !.pc = "done",
                        !.result = IF t = "" THEN [kind |-> "placeholder", raw |-> "No response"]
                                   ELSE [kind |-> "text", raw |-> t]]
       \/ \E t \in PageTexts :
             stab' = [stab EXCEPT !.pc = "done", !.result = [kind |-> "text", raw |-> t]]
       \/ stab' = [stab EXCEPT !.pc = "done"]
    /\ UNCHANGED stabFrame

NextStab ==
    \/ StabAppear
    \/ \E t \in PageTexts : StabRead(t)
    \/ StabStale
    \/ StabBreak
    \/ StabExit
    \/ StabReturn

SpecStab == InitStab /\ [][NextStab]_vars

\* The thread that runs _wait_for_new_response goes on while it can.
SpecStabFair == SpecStab /\ WF_vars(NextStab)

----------------------------------------------------------------------------
(* SpecShut: run_async from the start of the poller to its return.  One   *)
(* group has a message waiting; shutdown_event is set at any moment, by    *)
(* the callback signal_shutdown hands to the loop.                         *)

shutFrame == <<cacheVars, argA, argB, callers, ncalls, hist, before, disk, constructed,
               stab, tl, im, unit, config, uiVars>>

\* A mutation of Pending: no task is cancelled after the wait.
PendingNone == {t \in DOMAIN tasks : FALSE}

\* The tasks asyncio.wait returns as pending: those that have not finished.
Pending == {t \in DOMAIN tasks : tasks[t].st \notin {"done", "cancelled"}}

\* The awaits of the poller that may have completed, with the wake-up of
\* the poller queued, when the callback that sets the event runs.
Completed ==
    IF poller.pc \in {"cm_switch", "cm_get"} /\ pexec.st = "done" THEN {poller.pc, "none"}
    ELSE IF poller.pc = "sleep" THEN {"sleep", "none"}
    ELSE {"none"}

\* shutdown_event.set(), run by the loop: the waiter of run_async is woken,
\* its step queued behind the steps already in the ready queue.
SignalShutdown ==
    /\ ~sd.event
    /\ LoopFree
    /\ \E a \in Completed :
          sd' = [sd EXCEPT !.event = TRUE, !.runner = "signalled", !.ahead = a,
                           !.spawned = Len(tasks)]
    /\ UNCHANGED <<shutFrame, loopVars>>

\* run_async after shutdown_event.wait(): poller_task.cancel(), then it
\* awaits the poller.
RunAsyncWake ==
    /\ sd.runner = "signalled"
    /\ LoopFree
    /\ sd' = [sd EXCEPT !.runner = "await_poller", !.poller_cancel = poller.pc # "ended"]
    /\ UNCHANGED <<shutFrame, loopVars>>

\* message_poller finds shutdown_event set at the test of its while loop
\* and returns.
PollerEnd ==
    /\ poller.pc \in {"top", "sleep"}
    /\ sd.event
    /\ LoopFree
    /\ poller.pc = "top" \/ PollerMayRun
    /\ ~sd.poller_cancel
    /\ poller' = [poller EXCEPT !.pc = "ended"]
    /\ UNCHANGED <<shutFrame, sd, arrivals, group_locks, processing_messages, pexec, tasks>>

\* CancelledError is raised in the poller at the await it is suspended in
\* (check_messages does not catch it, the loop of the poller breaks on
\* it); the call it had handed to the executor runs on in its thread.
PollerCancelled ==
    /\ sd.poller_cancel
    /\ poller.pc # "ended"
    /\ LoopFree
    /\ poller' = [poller EXCEPT !.pc = "ended"]
    /\ UNCHANGED <<shutFrame, sd, arrivals, group_locks, processing_messages, pexec, tasks>>

\* run_async after the poller has ended: with self.tasks empty it goes to
\* cleanup_async, else it awaits asyncio.wait(self.tasks, timeout=10).
RunAsyncAfterPoller ==
    /\ sd.runner = "await_poller"
    /\ poller.pc = "ended"
    /\ LoopFree
    /\ sd' = [sd EXCEPT !.runner = IF tasks = <<>> THEN "cleanup" ELSE "wait_tasks",
                        !.poller_cancel = FALSE]
    /\ UNCHANGED <<shutFrame, loopVars>>

\* asyncio.wait returns, every task done or the timeout over (the timeout
\* may end the wait at any moment); run_async calls cancel() on the
\* pending tasks and awaits cleanup_async, which hands browser_manager.close
\* to the executor.
RunAsyncAfterWait ==
    /\ sd.runner = "wait_tasks"
    /\ LoopFree
    /\ sd' = [sd EXCEPT !.runner = "cleanup", !.cancel_req = Pending]
    /\ UNCHANGED <<shutFrame, loopVars>>

\* CancelledError is raised in a task at the await it is suspended in:
\* `except Exception` does not catch it, `async with` releases the group
\* lock the task holds, the finally of handle_message discards the
\* message id, and the task ends cancelled.  A task that never started
\* ends without running.
TaskCancelled(t) ==
    /\ CancelRequested(t)
    /\ tasks[t].st \notin {"done", "cancelled", "sr_cache"}
    /\ LoopFree
    /\ LET g == tasks[t].group
           id == MessageId("text", tasks[t].message)
           holds == tasks[t].st \notin {"created", "pm_wait", "sr_wait"}
       IN /\ group_locks' = IF holds THEN Release(group_locks, g) ELSE group_locks
          /\ processing_messages' =
                IF tasks[t].st = "created" THEN processing_messages
                ELSE [processing_messages EXCEPT ![g] = @ \ {id}]
          /\ tasks' = [tasks EXCEPT ![t].st = "cancelled", ![t].ex = "none", ![t].ok = FALSE]
    /\ UNCHANGED <<shutFrame, sd, arrivals, poller, pexec>>

\* browser_manager.close has returned and run_async resumes and returns.
\* The steps of the cancelled tasks were in the ready queue before
\* run_async suspended in cleanup_async, so they have run by then.
CleanupDone ==
    /\ sd.runner = "cleanup"
    /\ LoopFree
    /\ \A t \in sd.cancel_req : tasks[t].st = "cancelled"
    /\ sd' = [sd EXCEPT !.runner = "returned"]
    /\ UNCHANGED <<shutFrame, loopVars>>

ShutConfigurations == {[g \in Groups |-> IF g = "G1" THEN "ui" ELSE "api"]}

InitShut ==
    /\ store = FileAfterInit("missing")
    /\ cache = load_cache(store)
    /\ call = [th \in Threads |-> NoCall]
    /\ argA = <<>> /\ argB = <<>> /\ callers = {} /\ ncalls = 0 /\ hist = {}
    /\ before = [th \in Threads |-> {}] /\ disk = "missing" /\ constructed = TRUE
    /\ config \in ShutConfigurations
    /\ \E g \in Groups : chat = [h \in Groups |-> IF h = g THEN InMessage(<<"A">>) ELSE NoMessage]
    /\ current_chat = NoChat
    /\ arrivals = 0
    /\ group_locks = [g \in Groups |-> FALSE]
    /\ processing_messages = [g \in Groups |-> {}]
    /\ poller = [pc |-> "top"]
    /\ pexec = NoExec
    /\ tasks = <<>>
    /\ ExtIdle

RunAsyncStep == RunAsyncWake \/ RunAsyncAfterPoller \/ RunAsyncAfterWait \/ CleanupDone

NextShut ==
    \/ PollerCheck
    \/ PollerSwitchTab
    \/ PollerAfterSwitch
    \/ GnmSelect
    \/ GnmRead
    \/ GnmReturn
    \/ PollerAfterGet
    \/ \E th \in Threads : CallSaveOpen(th)
    \/ \E th \in Threads : CallSaveClose(th)
    \/ \E t \in DOMAIN tasks : TaskStart(t)
    \/ \E t \in DOMAIN tasks : ApiCall(t)
    \/ \E t \in DOMAIN tasks : AiSwitchTab(t)
    \/ \E t \in DOMAIN tasks : TaskAfterAiSwitch(t)
    \/ \E t \in DOMAIN tasks : AiSend(t)
    \/ \E t \in DOMAIN tasks : TaskAfterProcess(t)
    \/ \E t \in DOMAIN tasks : SendUiOp(t)
    \/ \E t \in DOMAIN tasks : SendStep(t)
    \/ \E t \in DOMAIN tasks : WhatsAppSend(t)
    \/ \E t \in DOMAIN tasks : TaskAfterSend(t)
    \/ \E t \in DOMAIN tasks : TaskAfterCache(t)
    \/ SignalShutdown
    \/ RunAsyncWake
    \/ PollerEnd
    \/ PollerCancelled
    \/ RunAsyncAfterPoller
    \/ RunAsyncAfterWait
    \/ \E t \in DOMAIN tasks : TaskCancelled(t)
    \/ CleanupDone

SpecShut == InitShut /\ [][NextShut]_vars

\* The loop runs the steps that are ready: run_async, the end of the
\* poller, the cancellation of a task, and cache_content on the loop thread.
SpecShutFair ==
    /\ SpecShut
    /\ WF_vars(RunAsyncStep)
    /\ WF_vars(PollerEnd \/ PollerCancelled)
    /\ WF_vars(\E t \in DOMAIN tasks : TaskCancelled(t))
    /\ WF_vars(CallSaveOpen("loop") \/ CallSaveClose("loop")
                  \/ \E t \in DOMAIN tasks : TaskAfterCache(t))

----------------------------------------------------------------------------
(* SpecTab: TabLock used by tasks that call acquire and, when it returned  *)
(* True, release.  Time is the clock time.time() reads, in seconds.        *)

Tabs == {"WhatsApp", "ChatGPT"}
Clients == 1 .. MaxClients
NoTime == -1
NoOwner == 0

tabFrame == <<cacheVars, argA, argB, callers, ncalls, hist, before, disk, constructed,
              stab, sd, im, unit, mainVars>>

InitTab ==
    /\ tl = [now |-> 0,
             locked |-> [tab \in Tabs |-> FALSE],
             waiters |-> [tab \in Tabs |-> <<>>],
             woken |-> [tab \in Tabs |-> FALSE],
             lock_owners |-> [tab \in Tabs |-> NoOwner],
             lock_times |-> [tab \in Tabs |-> NoTime],
             pc |-> [c \in Clients |-> "idle"],
             tab |-> [c \in Clients |-> "WhatsApp"],
             start |-> [c \in Clients |-> 0],
             since |-> [c \in Clients |-> 0],
             forced |-> [c \in Clients |-> FALSE],
             stale |-> [c \in Clients |-> FALSE],
             overheld |-> FALSE]
    /\ store = FileAfterInit("missing")
    /\ cache = load_cache(store)
    /\ call = [th \in Threads |-> NoCall]
    /\ argA = <<>> /\ argB = <<>> /\ callers = {} /\ ncalls = 0 /\ hist = {}
    /\ before = [th \in Threads |-> {}] /\ disk = "missing" /\ constructed = TRUE
    /\ StabIdle
    /\ ShutIdle
    /\ ImgIdle
    /\ UnitIdle
    /\ MainIdle

\* A mutation of ForceDue: the lock is force-released whenever it is held.
ForceDueAlways(r, tab) == r.lock_times[tab] # NoTime

\* acquire, the check for a stuck lock: tab_name in lock_times and
\* time.time() - lock_times[tab_name] > 60.
ForceDue(r, tab) == r.lock_times[tab] # NoTime /\ r.now - r.lock_times[tab] > force_release_ceiling

\* TabLock.release: if the asyncio.Lock is locked it is released (the
\* first waiter is woken) and the owner and the time are forgotten;
\* else only a warning.  The caller is not compared with the owner.
TabRelease(r, tab) ==
    IF r.locked[tab]
    THEN [r EXCEPT !.locked[tab] = FALSE,
                   !.woken[tab] = r.waiters[tab] # <<>>,
                   !.lock_owners[tab] = NoOwner,
                   !.lock_times[tab] = NoTime]
    ELSE r

\* acquire up to wait_for: get_lock, the forced release of a lock held
\* for more than 60 s, then lock.acquire() is handed to wait_for.
\* forced records that this call released the lock of another task,
\* stale that the hold of a task was ended by such a release.
AcquireBegin(c, tab) ==
    /\ tl.pc[c] = "idle"
    /\ LET o == tl.lock_owners[tab]
           r == IF ForceDue(tl, tab)
                THEN [TabRelease(tl, tab) EXCEPT
                         !.stale = [x \in Clients |-> tl.stale[x] \/ x = o]]
                ELSE tl
       IN tl' = [r EXCEPT !.pc[c] = "trying", !.tab[c] = tab, !.start[c] = tl.now,
                          !.forced[c] = ForceDue(tl, tab)]
    /\ UNCHANGED tabFrame

\* asyncio.Lock.acquire: taken at once if the lock is free and nobody
\* waits, else the caller joins the waiters.
LockAcquire(c) ==
    /\ tl.pc[c] = "trying"
    /\ LET tab == tl.tab[c]
       IN IF ~tl.locked[tab] /\ tl.waiters[tab] = <<>>
          THEN tl' = [tl EXCEPT !.locked[tab] = TRUE, !.start[c] = 0, !.pc[c] = "granted"]
          ELSE tl' = [tl EXCEPT !.waiters[tab] = Append(@, c), !.pc[c] = "waiting"]
    /\ UNCHANGED tabFrame

\* asyncio.Lock.acquire resumes in the first waiter, woken by a release:
\* it leaves the waiters and takes the lock.
LockWake(c) ==
    /\ tl.pc[c] = "waiting"
    /\ LET tab == tl.tab[c]
       IN /\ tl.woken[tab]
          /\ Head(tl.waiters[tab]) = c
          /\ tl' = [tl EXCEPT !.waiters[tab] = Tail(@), !.woken[tab] = FALSE,
                              !.locked[tab] = TRUE, !.start[c] = 0, !.pc[c] = "granted"]
    /\ UNCHANGED tabFrame

\* acquire after wait_for: the owner and the time are recorded and True
\* is returned.
AcquireReturn(c) ==
    /\ tl.pc[c] = "granted"
    /\ LET tab == tl.tab[c]
       IN tl' = [tl EXCEPT !.lock_owners[tab] = c, !.lock_times[tab] = tl.now,
                           !.since[c] = tl.now, !.pc[c] = "holding"]
    /\ UNCHANGED tabFrame

\* wait_for gives up after the timeout: the waiter is cancelled and leaves
\* the waiters (if it had been woken and the lock is free, the next
\* waiter is woken instead); acquire returns False.  The task is idle
\* again, forced still telling what the call that failed had done.
AcquireTimeout(c) ==
    /\ tl.pc[c] = "waiting"
    /\ tl.now - tl.start[c] >= acquire_timeout
    /\ LET tab == tl.tab[c]
           rest == SelectSeq(tl.waiters[tab], LAMBDA w : w # c)
           head == Head(tl.waiters[tab]) = c
       IN tl' = [tl EXCEPT !.waiters[tab] = rest,
                           !.woken[tab] = IF head THEN @ /\ ~tl.locked[tab] /\ rest # <<>>
                                          ELSE @,
                           !.tab[c] = "WhatsApp", !.start[c] = 0, !.pc[c] = "idle"]
    /\ UNCHANGED tabFrame

\* The task that acquired calls release(tab_name).
ClientRelease(c) ==
    /\ tl.pc[c] = "holding"
    /\ tl' = [TabRelease(tl, tl.tab[c]) EXCEPT !.tab[c] = "WhatsApp", !.since[c] = 0,
                                               !.forced[c] = FALSE, !.stale[c] = FALSE,
                                               !.pc[c] = "idle"]
    /\ UNCHANGED tabFrame

\* Time passes; overheld records that a holder has held for more than the
\* ceiling.
Tick ==
    /\ tl.now + TickSeconds <= MaxTime
    /\ tl' = [tl EXCEPT !.now = @ + TickSeconds,
                        !.overheld = @ \/ \E c \in Clients :
                             /\ tl.pc[c] = "holding"
                             /\ tl.now + TickSeconds - tl.since[c] > force_release_ceiling]
    /\ UNCHANGED tabFrame

NextTab ==
    \/ \E c \in Clients, tab \in Tabs : AcquireBegin(c, tab)
    \/ \E c \in Clients : LockAcquire(c)
    \/ \E c \in Clients : LockWake(c)
    \/ \E c \in Clients : AcquireReturn(c)
    \/ \E c \in Clients : AcquireTimeout(c)
    \/ \E c \in Clients : ClientRelease(c)
    \/ Tick

SpecTab == InitTab /\ [][NextTab]_vars

----------------------------------------------------------------------------
(* SpecImg: one call of compress_image(image_path, max_size_kb, quality).  *)
(* Sizes are in bytes; what the JPEG encoder writes for a quality and a    *)
(* scale is any size of EncodedSizes; a call of the file system or of PIL  *)
(* may raise.                                                              *)

FileSizes == {0, 1024, 2048, 3072}
EncodedSizes == {1024, 2048, 3072}
MaxSizes == {0, 1, 2}
Qualities == {default_quality, 10}
Sides == {4, 20}
ScaleUnit == 1000000
NoSize == -1

imgFrame == <<cacheVars, argA, argB, callers, ncalls, hist, before, disk, constructed,
              stab, sd, tl, unit, mainVars>>

\* The call begins: image_path names a file of orig bytes (or no file,
\* or a file PIL cannot read) holding an image of side x side pixels.
\* file is the size of the file at compressed_path, smallest the smallest
\* encoding written so far, env_failed that the file system or the
\* decoder raised.
InitImg ==
    /\ \E o \in FileSizes, m \in MaxSizes, q \in Qualities, s \in Sides,
          e \in {"ok", "missing", "unreadable"} :
          im = [pc |-> "start", orig |-> o, exists |-> e, max_size_kb |-> m, side |-> s,
                current_quality |-> q, scale_factor |-> 0, file |-> NoSize,
                smallest |-> NoSize, env_failed |-> FALSE,
                result |-> [kind |-> "none", path |-> "none"]]
    /\ store = FileAfterInit("missing")
    /\ cache = load_cache(store)
    /\ call = [th \in Threads |-> NoCall]
    /\ argA = <<>> /\ argB = <<>> /\ callers = {} /\ ncalls = 0 /\ hist = {}
    /\ before = [th \in Threads |-> {}] /\ disk = "missing" /\ constructed = TRUE
    /\ StabIdle
    /\ ShutIdle
    /\ TabIdle
    /\ UnitIdle
    /\ MainIdle

\* A mutation of Caught: the handler catches OSError only.
CaughtOSError(e) == e = "OSError"

\* `except Exception`: every exception the body can raise is caught.
Caught(e) == e \in {"OSError", "ValueError"}

\* A mutation of SmallEnough: strictly under max_size_kb.
StrictlySmaller(bytes, kb) == bytes < kb * 1024

\* size_kb <= max_size_kb, size_kb being getsize / 1024.
SmallEnough(bytes, kb) == bytes <= kb * 1024

\* The except clause returns image_path; an exception it does not catch
\* leaves the function.
Raise(r, e) ==
    [r EXCEPT !.pc = "done",
              !.result = IF Caught(e) THEN [kind |-> "returned", path |-> "original"]
                         ELSE [kind |-> "raised", path |-> "none"]]

\* img.save(compressed_path, format="JPEG", quality=...): the file holds
\* the new encoding, of any size; or the write fails.
Saved(r, bytes) ==
    [r EXCEPT !.file = bytes,
              !.smallest = IF r.smallest = NoSize \/ bytes < r.smallest THEN bytes ELSE @]

WriteFails(r) == Raise([r EXCEPT !.env_failed = TRUE, !.file = 0], "OSError")

\* os.path.getsize(image_path) and the early return for a small image.
ImgStart ==
    /\ im.pc = "start"
    /\ im' = IF im.exists = "missing"
             THEN Raise([im EXCEPT !.env_failed = TRUE], "OSError")
             ELSE IF SmallEnough(im.orig, im.max_size_kb)
             THEN [im EXCEPT !.pc = "done",
                             !.result = [kind |-> "returned", path |-> "original"]]
             ELSE [im EXCEPT !.pc = "open"]
    /\ UNCHANGED imgFrame

\* Image.open, convert("RGB") and the first save at the initial quality.
ImgOpen ==
    /\ im.pc = "open"
    /\ \/ /\ im.exists = "unreadable"
          /\ im' = Raise([im EXCEPT !.env_failed = TRUE], "OSError")
       \/ /\ im.exists = "ok"
          /\ \/ \E b \in EncodedSizes : im' = [Saved(im, b) EXCEPT !.pc = "quality"]
             \/ im' = WriteFails(im)
    /\ UNCHANGED imgFrame

\* while compressed_size_kb > max_size_kb and current_quality > 5: the
\* quality goes down by 5 and the image is saved again; after the loop
\* the resizing starts from scale_factor 0.9 if the file is still too big.
ImgQuality ==
    /\ im.pc = "quality"
    /\ IF ~SmallEnough(im.file, im.max_size_kb) /\ im.current_quality > quality_floor
       THEN LET r == [im EXCEPT !.current_quality = @ - quality_step]
            IN \/ \E b \in EncodedSizes : im' = Saved(r, b)
               \/ im' = WriteFails(r)
       ELSE im' = IF ~SmallEnough(im.file, im.max_size_kb)
                  THEN [im EXCEPT !.pc = "resize", !.scale_factor = (ScaleUnit * 9) \div 10]
                  ELSE [im EXCEPT !.pc = "final"]
    /\ UNCHANGED imgFrame

\* while compressed_size_kb > max_size_kb and scale_factor > 0.1: the
\* image is resized to int(width * scale_factor) (PIL raises ValueError
\* for a side of 0), saved at the quality reached, and scale_factor is
\* multiplied by 0.9.
ImgResize ==
    /\ im.pc = "resize"
    /\ IF ~SmallEnough(im.file, im.max_size_kb) /\ im.scale_factor * 10 > ScaleUnit
       THEN IF (im.side * im.scale_factor) \div ScaleUnit = 0
            THEN im' = Raise(im, "ValueError")
            ELSE LET r == [im EXCEPT !.scale_factor = (@ * 9) \div 10]
                 IN \/ \E b \in EncodedSizes : im' = Saved(r, b)
                    \/ im' = WriteFails(r)
       ELSE im' = [im EXCEPT !.pc = "final"]
    /\ UNCHANGED imgFrame

\* The size is read for the log and compressed_path is returned.
ImgFinal ==
    /\ im.pc = "final"
    /\ im' = [im EXCEPT !.pc = "done",
                        !.result = [kind |-> "returned", path |-> "compressed"]]
    /\ UNCHANGED imgFrame

NextImg ==
    \/ ImgStart
    \/ ImgOpen
    \/ ImgQuality
    \/ ImgResize
    \/ ImgFinal

SpecImg == InitImg /\ [][NextImg]_vars

----------------------------------------------------------------------------
(* Properties.  The equivalence of two contents is stated on the positions *)
(* of the strings, not through hash_content: a and b are equivalent when   *)
(* the parts between their first and last non-whitespace characters have   *)
(* the same length and agree position by position up to letter case.       *)

Ink(s) == {i \in 1..Len(s) : s[i] \notin Whitespace}
FirstInk(s) == CHOOSE i \in Ink(s) : \A j \in Ink(s) : i <= j
LastInk(s) == CHOOSE i \in Ink(s) : \A j \in Ink(s) : j <= i
TrimmedLen(s) == IF Ink(s) = {} THEN 0 ELSE LastInk(s) - FirstInk(s) + 1
TrimmedAt(s, i) == s[FirstInk(s) + i - 1]
SameLetter(x, y) == x = y \/ {x, y} = {"a", "A"}
Equivalent(a, b) ==
    /\ TrimmedLen(a) = TrimmedLen(b)
    /\ \A i \in 1..TrimmedLen(a) : SameLetter(TrimmedAt(a, i), TrimmedAt(b, i))

\* The cache_content calls that have returned: those made and not in progress.
InProgress == {<<call[th].content, call[th].group>> : th \in {x \in Threads : call[x].op = "cache_content"}}
Returned == hist \ InProgress

\* C7: is_cached(c, g) is false as long as cache_content has not been called
\* for the fingerprint of (c, g), and true once cache_content(c, g) has
\* returned.
C7_FalseBeforeTrueAfter ==
    \A c \in {argA, argB}, g \in Groups :
       /\ (\A h \in hist : ~(h[2] = g /\ Equivalent(h[1], c))) => ~is_cached(c, g)
       /\ <<c, g>> \in Returned => is_cached(c, g)

\* A call for one content has returned while the other content, of another
\* fingerprint, has not been cached.
C7_Witness ==
    /\ <<argA, "G1">> \in Returned
    /\ is_cached(argA, "G1")
    /\ ~Equivalent(argA, argB)
    /\ ~is_cached(argB, "G1")
    /\ ~is_cached(argA, "G2")

\* C8: contents that are equal after trimming and lower-casing have the same
\* hash, and after cache_content(a, g) has returned is_cached(b, g) is true
\* for every b equivalent to a.
C8_EquivalentContentsShareFingerprint ==
    /\ Equivalent(argA, argB) => hash_content(argA) = hash_content(argB)
    /\ \A h \in Returned : \A b \in {argA, argB} :
          Equivalent(h[1], b) => is_cached(b, h[2])

\* cache_content has returned for a content, and a different string that is
\* equivalent to it (in case and in surrounding whitespace) is cached.
C8_Witness ==
    /\ <<argA, "G1">> \in Returned
    /\ argA # argB
    /\ Len(argA) # Len(argB)
    /\ Lower(argA) # Lower(argB)
    /\ Equivalent(argA, argB)
    /\ \E i \in 1..Len(argA) : argA[i] = "A"
    /\ is_cached(argB, "G1")

\* C9: an entry of the cache is never evicted: a pair that is_cached reports
\* as cached is still reported as cached after every step.
C9_NeverEvicted ==
    [][\A c \in Texts, g \in Groups : is_cached(c, g) => is_cached(c, g)']_vars

\* Two calls for different fingerprints have returned, from both threads,
\* and both are cached.
C9_Witness ==
    /\ ncalls = 2
    /\ Cardinality(cache) = 2
    /\ \A th \in Threads : call[th].op = "none"
    /\ \A h \in hist : is_cached(h[1], h[2])

\* C10: write-through.  Whenever no cache_content call is in progress the
\* file holds the in-memory map: a cache loaded from it agrees with
\* is_cached on every pair.
C10_WriteThrough ==
    (\A th \in Threads : call[th].op = "none") => load_cache(store) = cache

\* A handle_message task from its creation by the poller up to its end.
InFlight(t) == tasks[t].st # "done"

\* An executor call of the task that drives the browser is running.
TaskInUi(t) == tasks[t].st \in UiStates /\ tasks[t].ex = "running"

\* An executor call of the poller is on the browser: the switch to the
\* WhatsApp tab, or get_new_messages selecting a chat or reading it.
PollerInUi ==
    \/ pexec.op = "switch" /\ pexec.st = "running"
    \/ pexec.op = "gnm" /\ pexec.st \in {"running", "read"} /\ pexec.queue # <<>>

\* C1: the poller creates at most one handle_message task for a fingerprint:
\* no two tasks have the same group and equivalent message texts.
C1_OneTaskPerFingerprint ==
    \A t1, t2 \in DOMAIN tasks :
       t1 # t2 /\ tasks[t1].group = tasks[t2].group
          => ~Equivalent(tasks[t1].message, tasks[t2].message)

\* The task of a message has ended, a different text with the same
\* fingerprint has arrived in its group, and get_new_messages has passed
\* over the group's chat without returning a message.
C1_Witness ==
    \E t \in DOMAIN tasks :
       LET g == tasks[t].group IN
       /\ tasks[t].st = "done"
       /\ Len(tasks) = 1
       /\ arrivals = 2
       /\ chat[g].dir = "in"
       /\ chat[g].text # tasks[t].message
       /\ Equivalent(chat[g].text, tasks[t].message)
       /\ current_chat = g
       /\ pexec.op = "gnm" /\ pexec.st = "running" /\ pexec.group = NoChat
       /\ Len(pexec.queue) < Cardinality(Groups)

\* C2: at most one handle_message task of a group is in flight.
C2_OneTaskInFlightPerGroup ==
    \A t1, t2 \in DOMAIN tasks :
       t1 # t2 /\ tasks[t1].group = tasks[t2].group
          => ~(InFlight(t1) /\ InFlight(t2))

\* A task is in flight, a message that is not cached is waiting in the chat
\* of its group, and the poller has completed a get_new_messages that left
\* the group out.
C2_Witness ==
    \E t \in DOMAIN tasks :
       LET g == tasks[t].group IN
       /\ InFlight(t)
       /\ tasks[t].ex = "running"
       /\ chat[g].dir = "in"
       /\ ~is_cached(chat[g].text, g)
       /\ poller.pc = "cm_get"
       /\ pexec.op = "gnm" /\ pexec.st = "done"

\* C3: message detection and the tasks exclude each other on the browser: no
\* UI step of check_messages / get_new_messages runs while a task is inside
\* a UI operation of process_message or send_response.
C3_DetectionExcludesTasks ==
    ~(PollerInUi /\ \E t \in DOMAIN tasks : TaskInUi(t))

\* C4: the UI operations of two tasks of different groups, both on the UI
\* path, never overlap.
C4_UiOperationsSerialized ==
    \A t1, t2 \in DOMAIN tasks :
       /\ tasks[t1].group # tasks[t2].group
       /\ config[tasks[t1].group] = "ui"
       /\ config[tasks[t2].group] = "ui"
       => ~(TaskInUi(t1) /\ TaskInUi(t2))

\* C5: an API call of a group is not held up by another group: a task of a
\* group on the API path never waits for a lock before its call, and the
\* lock of a group is never locked unless a task of that very group runs
\* between its acquisition and its release.
C5_ApiCallsIndependent ==
    /\ \A t \in DOMAIN tasks :
          config[tasks[t].group] # "ui" => tasks[t].st # "pm_wait"
    /\ \A g \in Groups :
          Locked(group_locks, g) =>
             \E t \in DOMAIN tasks :
                /\ tasks[t].group = g
                /\ tasks[t].st \notin {"created", "pm_wait", "sr_wait", "done"}

\* The API calls of two groups are in progress at the same time.
C5_Witness ==
    \E t1, t2 \in DOMAIN tasks :
       /\ tasks[t1].group # tasks[t2].group
       /\ tasks[t1].st = "pm_api" /\ tasks[t1].ex = "running"
       /\ tasks[t2].st = "pm_api" /\ tasks[t2].ex = "running"

Reloaded == load_cache(store)

\* C11: concurrent cache_content calls are serialized: once the calls have
\* returned, the in-memory map and the file both hold the entry of every
\* call made.
C11_NoLostUpdate ==
    (\A th \in Threads : call[th].op = "none") =>
       \A h \in hist :
          /\ CacheKey(h[1], h[2]) \in cache
          /\ CacheKey(h[1], h[2]) \in Reloaded

\* C12: cache_content(c, g1) changes the cached status of (c, g1) only:
\* when the call returns, (c, g2) is cached for another group g2 exactly if
\* it was when the call began, in memory and in a cache reloaded from the
\* file (a pair that a call of its own has cached meanwhile may have been
\* added).
C12_ScopedPerGroup ==
    \A th \in Threads :
       call[th].op = "cache_content" /\ call[th].pc = "ret" =>
          \A g2 \in Groups \ {call[th].group} :
             LET c == call[th].content
                 was == CacheKey(c, g2) \in before[th]
                 own == \E h \in hist : h[2] = g2 /\ hash_content(h[1]) = hash_content(c)
             IN /\ was => is_cached(c, g2) /\ CacheKey(c, g2) \in Reloaded
                /\ ~was /\ ~own => ~is_cached(c, g2) /\ CacheKey(c, g2) \notin Reloaded

C14_ReturnsOnlyStableText ==
    stab.pc = "done" /\ stab.result.kind = "text" =>
       stab.run >= max_stable_checks /\ stab.run_text = stab.result.raw

\* The task is inside send_response.
InSendResponse(t) == tasks[t].st \in SendStates \cup {"sr_wait", "sr_send", "sr_cache"}

\* C15: send_response is invoked only with a genuine reply of the backend:
\* a task whose processing ended with an error text never delivers it.
C15_NoErrorTextDelivered ==
    \A t \in DOMAIN tasks : InSendResponse(t) => tasks[t].response # ErrorText

\* C16: a message of a group whose platform has no API client is routed
\* through the UI path: its task never runs the API branch of
\* process_message.
C16_NoClientTakesUiPath ==
    \A t \in DOMAIN tasks :
       config[tasks[t].group] = "api_noclient" => tasks[t].st # "pm_api"

\* C17: a failure in a detection cycle or in the handling of a message
\* never ends the poller: it has ended only if shutdown_event was set
\* (it saw the event at its loop test, or run_async cancelled it).
C17_PollerEndsOnlyOnShutdown == poller.pc = "ended" => sd.event

\* A task has failed (no response, or a step of the reply failed) and the
\* poller is in a later detection cycle, no shutdown being asked for.
C17_Witness ==
    /\ ~sd.event
    /\ poller.pc = "cm_get"
    /\ \E t \in DOMAIN tasks : tasks[t].st = "done" /\ tasks[t].response = <<>>

\* C18: once shutdown_event is set the poller creates no further task:
\* the tasks are those that existed when the event was set.
C18_NoSpawnAfterShutdown == sd.event => Len(tasks) = sd.spawned

\* A task has finished: neither running nor waiting to run.
Finished(t) == tasks[t].st \in {"done", "cancelled"}

\* C19: after the event is set run_async returns in the end; after the
\* wait for the tasks every task that has not finished has been asked to
\* cancel, and when run_async has returned every task has finished.
C19_GraceThenReturn ==
    /\ [](sd.runner \in {"cleanup", "returned"} =>
             \A t \in DOMAIN tasks : Finished(t) \/ CancelRequested(t))
    /\ [](sd.runner = "returned" => \A t \in DOMAIN tasks : Finished(t))
    /\ (sd.event ~> sd.runner = "returned")

\* run_async has returned after it cancelled a task that was in flight.
C19_Witness ==
    /\ sd.runner = "returned"
    /\ \E t \in DOMAIN tasks : tasks[t].st = "cancelled"

\* The tasks between a successful acquire of the tab and their release.
Holders(tab) == {c \in Clients : tl.pc[c] = "holding" /\ tl.tab[c] = tab}

\* C20: as long as no holder has held a lock for more than the 60 s
\* ceiling, each tab has at most one task between a successful acquire
\* and its release.
C20_OneHolderPerTab == ~tl.overheld => \A tab \in Tabs : Cardinality(Holders(tab)) <= 1

\* A task has held a tab for the whole 60 s, another entered acquire for
\* that tab meanwhile and waits: the check did not release the lock.
C20_Witness ==
    /\ ~tl.overheld
    /\ \E c \in Clients, w \in Clients :
          /\ tl.pc[c] = "holding"
          /\ tl.now - tl.since[c] = force_release_ceiling
          /\ tl.pc[w] = "waiting" /\ tl.tab[w] = tl.tab[c]
          /\ tl.start[w] > tl.since[c]
          /\ tl.lock_times[tl.tab[c]] = tl.since[c]

\* The acquire of task c has returned False after it had force-released
\* the lock of the tab.
FailedAfterForce(c) == tl.pc[c] = "idle" /\ tl.forced[c]

\* C21: an acquire that finds the lock of its tab held for more than 60 s
\* releases it and then succeeds: it neither waits for the lock nor
\* returns False.
C21_ForcedAcquireSucceeds ==
    \A c \in Clients : tl.forced[c] => tl.pc[c] \in {"trying", "granted", "holding"}

\* C22: an acquire that returns False has changed neither the recorded
\* owner nor the recorded time of the tab, and an acquire that returned
\* True has recorded the calling task as the owner.
C22_FailedAcquireLeavesRecord ==
    /\ \A c \in Clients : ~FailedAfterForce(c)
    /\ \A c \in Clients :
          tl.pc[c] = "holding" /\ ~tl.overheld /\ tl.since[c] = tl.now
             => tl.lock_owners[tl.tab[c]] = c

\* C23: compress_image never raises; it returns a path, and the original
\* path whenever the file system, the decoder or the encoder failed.
C23_NeverRaises ==
    im.pc = "done" =>
       /\ im.result.kind = "returned"
       /\ im.result.path \in {"original", "compressed"}
       /\ im.env_failed => im.result.path = "original"

\* A call in which a write failed after an encoding had been written.
C23_Witness ==
    im.pc = "done" /\ im.env_failed /\ im.smallest # NoSize /\ im.result.path = "original"

\* C24: for a file at or under max_size_kb the original path is returned
\* and nothing is written.
C24_SmallImageUntouched ==
    im.pc = "done" /\ im.exists # "missing" /\ im.orig <= im.max_size_kb * 1024 =>
       /\ im.result = [kind |-> "returned", path |-> "original"]
       /\ im.file = NoSize

\* A file of exactly max_size_kb has been handled.
C24_Witness ==
    im.pc = "done" /\ im.exists = "ok" /\ im.max_size_kb > 0 /\ im.orig = im.max_size_kb * 1024

\* C25: for an oversized image, with no failure of the file system or of
\* the decoder, the file returned is at most max_size_kb or else the
\* smallest of the encodings written.
C25_SmallestEncodingReturned ==
    im.pc = "done" /\ im.exists = "ok" /\ ~im.env_failed /\ im.orig > im.max_size_kb * 1024 =>
       /\ im.result = [kind |-> "returned", path |-> "compressed"]
       /\ im.file <= im.max_size_kb * 1024 \/ im.file = im.smallest

\* C26: from the select_chat(g) of send_response to its send_message the
\* chat on display is that of g: while a task is about to type its reply,
\* the current chat is the chat of its group.
C26_ReplySentInOwnChat ==
    \A t \in DOMAIN tasks :
       tasks[t].st = "sr_send" /\ tasks[t].ex = "running" => current_chat = tasks[t].group

\* get_new_messages has returned a message it recorded in the cache as
\* new, and check_messages is about to look at the result.
DetectedNew == poller.pc = "cm_get" /\ pexec.op = "gnm" /\ pexec.st = "done" /\ pexec.ok

\* C27: a message returned as new is handed to a task in the same cycle:
\* when the result comes back the lock of its group is free and its
\* identifier is not being processed, so neither the race branch of
\* check_messages nor the duplicate branch of the poller is taken, and a
\* task just created does not find its identifier in processing_messages.
C27_DetectedMessageGetsTask ==
    /\ DetectedNew =>
          /\ ~Locked(group_locks, pexec.group)
          /\ MessageId("text", pexec.text) \notin processing_messages[pexec.group]
    /\ \A t \in DOMAIN tasks :
          tasks[t].st = "created" =>
             MessageId("text", tasks[t].message) \notin processing_messages[tasks[t].group]

\* A message comes back as new while a task of the other group holds its
\* lock.
C27_Witness ==
    /\ DetectedNew
    /\ \E t \in DOMAIN tasks :
          /\ InFlight(t)
          /\ tasks[t].group # pexec.group
          /\ Locked(group_locks, tasks[t].group)

\* The task has added its identifier and has not ended.
Handling(t) == tasks[t].st \notin {"created", "done", "cancelled"}

Deciding == poller.pc = "cm_switch" /\ pexec.st = "done" /\ pexec.ok /\ LoopFree

\* C29: where the poller decides which groups to check, the lock of a
\* group is held exactly when processing_messages of the group is not
\* empty.
C29_LockedIffInFlight ==
    Deciding => \A g \in Groups : Locked(group_locks, g) <=> processing_messages[g] # {}

\* The poller decides while one group is being processed and the other
\* is not.
C29_Witness ==
    /\ Deciding
    /\ \E g \in Groups : Locked(group_locks, g) /\ processing_messages[g] # {}
    /\ \E g \in Groups : ~Locked(group_locks, g) /\ processing_messages[g] = {}

\* C30: every call of _wait_for_new_response terminates, whatever the
\* page shows at each poll.
C30_CallTerminates == <>(stab.pc = "done")

\* C33: release ends only the hold of the current owner: a task that
\* holds a tab, and whose hold was not force-released, has the lock of
\* the tab locked and is its recorded owner, whatever a task whose hold
\* was force-released does.
C33_StaleReleaseHarmless ==
    \A c \in Clients :
       tl.pc[c] = "holding" /\ ~tl.stale[c] =>
          /\ tl.locked[tl.tab[c]]
          /\ tl.lock_owners[tl.tab[c]] = c
          /\ tl.lock_times[tl.tab[c]] = tl.since[c]

-----------------------------------------------------------------------------
\* NetaAutomation.setup as run_async calls it.

\* The platforms IntegrationManager makes an API client for.
ApiPlatforms == {"claude", "openai", "gemini"}

\* IntegrationManager.__init__(self, config, driver=None) binds one or
\* two arguments after self.
MaxInitArgs == 2

\* setup passes config, the driver and the AI platform UI (or None).
PassedInitArgs == 3

\* The call binds: Python raises TypeError when more positional
\* arguments are passed than the signature takes.
Binds(n) == n \in 1..MaxInitArgs

unitFrame == <<cacheVars, argA, argB, callers, ncalls, hist, before, disk, constructed,
               stab, sd, tl, im, mainVars>>

\* Everything but the unit at hand is at rest.
RestIdle ==
    /\ store = FileAfterInit("missing")
    /\ cache = load_cache(store)
    /\ call = [th \in Threads |-> NoCall]
    /\ argA = <<>> /\ argB = <<>> /\ callers = {} /\ ncalls = 0 /\ hist = {}
    /\ before = [th \in Threads |-> {}] /\ disk = "missing" /\ constructed = TRUE
    /\ StabIdle
    /\ ShutIdle
    /\ TabIdle
    /\ ImgIdle
    /\ MainIdle

\* run_async awaits setup: mappings are the groups of the configuration,
\* use_browser_for_ai its setting, keys the platforms whose API key is
\* set in the environment.
InitSetup ==
    /\ \E m \in SUBSET Groups, u \in BOOLEAN, k \in SUBSET ApiPlatforms :
          unit = [pc |-> "start", mappings |-> m, use_browser_for_ai |-> u, keys |-> k,
                  locks |-> {}, tabs |-> {}, browser |-> "none", whatsapp_ui |-> FALSE,
                  ai_platform_ui |-> FALSE, integration_manager |-> FALSE,
                  clients |-> {}, result |-> "none", poller |-> "none"]
    /\ RestIdle

\* One asyncio.Lock per mapped group.
SetupLocks ==
    /\ unit.pc = "start"
    /\ unit' = [unit EXCEPT !.pc = "browser", !.locks = unit.mappings]
    /\ UNCHANGED unitFrame

\* setup_browser opens the WhatsApp tab and, on the browser path, a tab
\* per mapped group; it may raise.
SetupBrowser ==
    /\ unit.pc = "browser"
    /\ \E ok \in BOOLEAN :
          unit' = IF ok
                  THEN [unit EXCEPT !.pc = "ui", !.browser = "ok",
                                    !.tabs = IF unit.use_browser_for_ai
                                             THEN unit.mappings ELSE {}]
                  ELSE [unit EXCEPT !.pc = "except", !.browser = "error"]
    /\ UNCHANGED unitFrame

\* WhatsAppUI, and AIPlatformUI on the browser path.
SetupUi ==
    /\ unit.pc = "ui"
    /\ unit' = [unit EXCEPT !.pc = "integration", !.whatsapp_ui = TRUE,
                            !.ai_platform_ui = unit.use_browser_for_ai]
    /\ UNCHANGED unitFrame

\* IntegrationManager(config, driver, ai_platform_ui or None), then
\* return True; a TypeError of the call goes to the handler.
SetupIntegration ==
    /\ unit.pc = "integration"
    /\ unit' = IF Binds(PassedInitArgs)
               THEN [unit EXCEPT !.pc = "returned", !.integration_manager = TRUE,
                                 !.clients = unit.keys, !.result = "True"]
               ELSE [unit EXCEPT !.pc = "except"]
    /\ UNCHANGED unitFrame

\* except Exception: return False.
SetupExcept ==
    /\ unit.pc = "except"
    /\ unit' = [unit EXCEPT !.pc = "returned", !.result = "False"]
    /\ UNCHANGED unitFrame

\* run_async: return when setup failed, else create the poller task.
RunAsyncAfterSetup ==
    /\ unit.pc = "returned"
    /\ unit' = [unit EXCEPT !.pc = "done",
                            !.poller = IF unit.result = "True" THEN "started" ELSE "never"]
    /\ UNCHANGED unitFrame

NextSetup ==
    \/ SetupLocks
    \/ SetupBrowser
    \/ SetupUi
    \/ SetupIntegration
    \/ SetupExcept
    \/ RunAsyncAfterSetup

SpecSetup == InitSetup /\ [][NextSetup]_vars

\* C34: when the browser was set up without error, setup constructs the
\* IntegrationManager and returns True, and run_async starts the poller.
C34_SetupSucceeds ==
    unit.pc = "done" /\ unit.browser = "ok" =>
       /\ unit.integration_manager
       /\ unit.result = "True"
       /\ unit.poller = "started"

-----------------------------------------------------------------------------
\* send_response from the selection of the chat on, with
\* WhatsAppUI.send_message and _send_image.

\* The text of a response: None, "", " " or a reply.
NoText == [none |-> TRUE, s |-> <<>>]
ResponseTexts == {NoText} \cup {[none |-> FALSE, s |-> t] : t \in {<<>>, <<" ">>} \cup ReplyTexts}

\* bool(text): neither None nor "".
Truthy(t) == ~t.none /\ t.s # <<>>

\* f"image:{image_path}" for the one image path of the model.
ImageKey == <<"a", "A", "a">>

\* The responses handle_message passes on: response[0] or response[1].
Responses ==
    {r \in [text : ResponseTexts, image : BOOLEAN] : Truthy(r.text) \/ r.image}

sendFrame == <<call, argA, argB, callers, ncalls, hist, before, disk, constructed,
               stab, sd, tl, im, mainVars>>

InitSend ==
    /\ \E g \in Groups, r \in Responses, os \in {"macos", "linux"} :
          unit = [pc |-> "start", group_name |-> g, text_response |-> r.text,
                  image_path |-> r.image, os_type |-> os, current_chat |-> NoChat,
                  sent_text |-> FALSE, sent_image |-> FALSE, success |-> FALSE,
                  cache_before |-> {}]
    /\ RestIdle

\* switch_to_tab("WhatsApp") and select_chat(group_name): send_response
\* returns False when either fails.
SendSelectChat ==
    /\ unit.pc = "start"
    /\ \E ok \in BOOLEAN :
          unit' = IF ok
                  THEN [unit EXCEPT !.pc = "image", !.current_chat = unit.group_name,
                                    !.cache_before = cache]
                  ELSE [unit EXCEPT !.pc = "done", !.cache_before = cache]
    /\ UNCHANGED <<cache, store, sendFrame>>

\* send_message up to the text: False without a current chat; with an
\* image, _send_image, whose failure is logged and nothing more.
\* _paste_image_from_clipboard returns False off macOS and on an
\* exception, True when the image was pasted and submitted.
SendMessageImage ==
    /\ unit.pc = "image"
    /\ IF unit.current_chat = NoChat
       THEN unit' = [unit EXCEPT !.pc = "sent", !.success = FALSE]
       ELSE \E ok \in (IF unit.os_type = "macos" THEN BOOLEAN ELSE {FALSE}) :
               unit' = [unit EXCEPT !.pc = "text",
                                    !.sent_image = unit.image_path /\ ok]
    /\ UNCHANGED <<cache, store, sendFrame>>

\* send_message, the text: pasted and submitted when message and
\* message.strip(); an exception gives False, everything else True.
SendMessageText ==
    /\ unit.pc = "text"
    /\ IF Truthy(unit.text_response) /\ Strip(unit.text_response.s) # <<>>
       THEN \E ok \in BOOLEAN :
               unit' = [unit EXCEPT !.pc = "sent", !.sent_text = ok, !.success = ok]
       ELSE unit' = [unit EXCEPT !.pc = "sent", !.success = TRUE]
    /\ UNCHANGED <<cache, store, sendFrame>>

\* send_response after send_message: on success cache_content for the
\* text, if any, and for the image key, if any; each call saves the file.
SendCache ==
    /\ unit.pc = "sent"
    /\ LET c1 == IF unit.success /\ Truthy(unit.text_response)
                 THEN InsertKey(cache, CacheKey(unit.text_response.s, unit.group_name))
                 ELSE cache
           c2 == IF unit.success /\ unit.image_path
                 THEN InsertKey(c1, CacheKey(ImageKey, unit.group_name))
                 ELSE c1
       IN /\ cache' = c2
          /\ store' = IF c2 = cache THEN store ELSE ValidFile(c2)
    /\ unit' = [unit EXCEPT !.pc = "done"]
    /\ UNCHANGED sendFrame

NextSend ==
    \/ SendSelectChat
    \/ SendMessageImage
    \/ SendMessageText
    \/ SendCache

SpecSend == InitSend /\ [][NextSend]_vars

\* C31: when send_response returns True the text of the reply, and the
\* image key when the reply has an image, are cached under the group;
\* when it returns False the cache is what it was.
C31_DeliveredReplyCached ==
    unit.pc = "done" =>
       IF unit.success
       THEN /\ Truthy(unit.text_response) =>
                  is_cached(unit.text_response.s, unit.group_name)
            /\ unit.image_path => is_cached(ImageKey, unit.group_name)
       ELSE cache = unit.cache_before

\* A reply of a text and an image was sent and send_response returned True.
C31_Witness ==
    /\ unit.pc = "done"
    /\ unit.success
    /\ unit.sent_text
    /\ unit.sent_image
    /\ Cardinality(cache) = 2

\* C35: send_message returns True only if the text or the image was
\* submitted to the chat.
C35_TrueOnlyIfSubmitted ==
    unit.pc \in {"sent", "done"} /\ unit.success => unit.sent_text \/ unit.sent_image

-----------------------------------------------------------------------------
\* The API path: IntegrationManager.process_message and the clients'
\* conversation histories.

\* Two of the platforms IntegrationManager holds one client each for.
HistoryPlatforms == {"openai", "perplexity"}

\* Calls of send_text_message in a behaviour.
MaxApiCalls == 3

max_history_messages == 10

\* self.conversation_history[-self.max_history_messages:] when longer.
Trim(h) ==
    IF Len(h) > max_history_messages
    THEN SubSeq(h, Len(h) - max_history_messages + 1, Len(h))
    ELSE h

\* api_platform of each group; one client, and so one history, per
\* platform; in_call: the group's task is inside send_text_message (the
\* group lock admits one at a time); messages: what was last passed to
\* chat.completions.create for the group.  Each entry of a history
\* carries, besides its role, the group its content comes from.
InitApi ==
    /\ \E pf \in [Groups -> HistoryPlatforms] :
          unit = [pc |-> "api", api_platform |-> pf,
                  conversation_history |-> [q \in HistoryPlatforms |-> <<>>],
                  in_call |-> [g \in Groups |-> FALSE],
                  messages |-> [g \in Groups |-> <<>>],
                  ncalls |-> 0]
    /\ RestIdle

\* self.clients[platform_name].send_text_message(message, ai_config), to
\* the request: the prompt is appended, the history trimmed and sent.
ApiSendBegin(g) ==
    /\ unit.pc = "api"
    /\ ~unit.in_call[g]
    /\ unit.ncalls < MaxApiCalls
    /\ LET q == unit.api_platform[g]
           h == Trim(Append(unit.conversation_history[q],
                            [role |-> "user", group |-> g]))
       IN unit' = [unit EXCEPT !.conversation_history[q] = h,
                               !.messages[g] = h,
                               !.in_call[g] = TRUE,
                               !.ncalls = @ + 1]
    /\ UNCHANGED unitFrame

\* The request returns and the reply is appended, or it raises and
\* send_text_message returns (None, None).
ApiSendEnd(g) ==
    /\ unit.pc = "api"
    /\ unit.in_call[g]
    /\ \E ok \in BOOLEAN :
          LET q == unit.api_platform[g]
          IN unit' = [unit EXCEPT
                        !.conversation_history[q] =
                            IF ok THEN Append(@, [role |-> "assistant", group |-> g])
                            ELSE @,
                        !.in_call[g] = FALSE]
    /\ UNCHANGED unitFrame

NextApi == \E g \in Groups : ApiSendBegin(g) \/ ApiSendEnd(g)

SpecApi == InitApi /\ [][NextApi]_vars

\* C32: the conversation history transmitted for a message of a group
\* holds messages and replies of that group only.
C32_HistoryOfOwnGroup ==
    unit.pc = "api" =>
       \A g \in Groups :
          \A i \in DOMAIN unit.messages[g] : unit.messages[g][i].group = g

-----------------------------------------------------------------------------
\* The loop of message_poller: the delay, self.tasks, cleanup_counter.
\* Durations are in hundredths of a second.

\* Values of LOOP_INTERVAL_DELAY: 0.2 s, 1 s, 5 s (the default).
BaseDelays == {20, 100, 500}

\* 1.0 in min_delay = max(1.0, base_delay / 2).
one_second == 100

\* Exceptions that leave the body of the loop in a behaviour.
MaxRaises == 2

\* if cleanup_counter >= 120
cleanup_every == 120

Least(a, b) == IF a <= b THEN a ELSE b

min_delay(base_delay) == Max(one_second, base_delay \div 2)

\* min(base_delay * (1 + 0.2 * current_task_count), base_delay * 3)
adjusted_delay(base_delay, n) == Least((base_delay * (5 + n)) \div 5, base_delay * 3)

actual_delay(base_delay, n) == Max(min_delay(base_delay), adjusted_delay(base_delay, n))

\* A mutation of CleanupDue: the comparison is strict.
CleanupDueLate(c) == c > cleanup_every

CleanupDue(c) == c >= cleanup_every

\* The groups check_messages looks at: those whose lock is free, which
\* are the groups without a running handle_message task.
Running(g) == {i \in DOMAIN unit.tasks : unit.tasks[i].group = g /\ ~unit.tasks[i].done}

\* [t for t in self.tasks if not t.done()]
RECURSIVE NotDone(_)
NotDone(ts) ==
    IF ts = <<>> THEN <<>>
    ELSE IF Head(ts).done THEN NotDone(Tail(ts)) ELSE <<Head(ts)>> \o NotDone(Tail(ts))

\* message_poller up to its loop.  delay: actual_delay of the iteration;
\* slept: the argument of the sleep under way; cleaned: cleanup ran in
\* the iteration; completed: the iterations that reached their sleep
\* since cleanup last ran.
InitLoop ==
    /\ \E b \in BaseDelays :
          unit = [pc |-> "top", base_delay |-> b, tasks |-> <<>>, delay |-> 0,
                  slept |-> 0, cleanup_counter |-> 0, cleaned |-> FALSE, completed |-> 0,
                  raises |-> 0]
    /\ RestIdle

\* The top of the body: the delay from len(self.tasks); check_messages
\* is awaited.
PollerTop ==
    /\ unit.pc = "top"
    /\ unit' = [unit EXCEPT !.pc = "check", !.cleaned = FALSE,
                            !.delay = actual_delay(unit.base_delay, Len(unit.tasks))]
    /\ UNCHANGED unitFrame

\* check_messages returns nothing or a message of a group whose lock is
\* free.  A message whose id is being processed: continue.  Otherwise
\* a task is created and the finished ones are dropped from self.tasks.
\* Then the counter; at 120 cleanup_temp_files is awaited, else the sleep.
PollerChecked ==
    /\ unit.pc = "check"
    /\ \E found \in {NoChat} \cup {g \in Groups : Running(g) = {}} :
          IF found # NoChat /\ Running(found) # {}
          THEN unit' = [unit EXCEPT !.pc = "top"]
          ELSE LET ts == IF found = NoChat THEN unit.tasks
                         ELSE NotDone(Append(unit.tasks, [group |-> found, done |-> FALSE]))
                   c == unit.cleanup_counter + 1
               IN unit' = IF CleanupDue(c)
                          THEN [unit EXCEPT !.pc = "cleanup", !.tasks = ts,
                                            !.cleanup_counter = c]
                          ELSE [unit EXCEPT !.pc = "sleep", !.tasks = ts,
                                            !.cleanup_counter = c,
                                            !.completed = @ + 1,
                                            !.slept = unit.delay]
    /\ UNCHANGED unitFrame

\* cleanup_temp_files returns: the counter is reset, the poller sleeps.
PollerCleanup ==
    /\ unit.pc = "cleanup"
    /\ unit' = [unit EXCEPT !.pc = "sleep", !.cleanup_counter = 0, !.cleaned = TRUE,
                            !.completed = 0, !.slept = unit.delay]
    /\ UNCHANGED unitFrame

\* except Exception: an exception leaves an await of the body; the
\* poller sleeps base_delay * 2.
PollerRaise ==
    /\ unit.pc \in {"check", "cleanup"}
    /\ unit.raises < MaxRaises
    /\ unit' = [unit EXCEPT !.pc = "error_sleep", !.slept = unit.base_delay * 2,
                            !.raises = @ + 1]
    /\ UNCHANGED unitFrame

\* The sleep ends; while not shutdown_event.is_set().
PollerWake ==
    /\ unit.pc \in {"sleep", "error_sleep"}
    /\ unit' = [unit EXCEPT !.pc = "top"]
    /\ UNCHANGED unitFrame

\* A handle_message task ends.
LoopTaskDone(i) ==
    /\ unit.pc \in {"top", "check", "cleanup", "sleep", "error_sleep"}
    /\ i \in DOMAIN unit.tasks
    /\ ~unit.tasks[i].done
    /\ unit' = [unit EXCEPT !.tasks[i].done = TRUE]
    /\ UNCHANGED unitFrame

NextLoop ==
    \/ PollerTop
    \/ PollerChecked
    \/ PollerCleanup
    \/ PollerRaise
    \/ PollerWake
    \/ \E i \in DOMAIN unit.tasks : LoopTaskDone(i)

SpecLoop == InitLoop /\ [][NextLoop]_vars

\* C36: every sleep between two calls of check_messages, the one of the
\* error path included, lasts min_delay at least.
C36_SleepsAtLeastMinDelay ==
    unit.pc \in {"sleep", "error_sleep"} => unit.slept >= min_delay(unit.base_delay)

\* C37: where the delay is computed self.tasks holds running tasks only.
C37_TasksAreRunning ==
    unit.pc = "top" => \A i \in DOMAIN unit.tasks : ~unit.tasks[i].done

-----------------------------------------------------------------------------
\* AIPlatformUI._clean_response_text on texts of the characters x, space,
\* newline and -, with "c" for a citation marker such as [1] and "S" for
\* the words "Source: ".

\* The pieces a raw response is made of, and their number at most.
Pieces == {<<"-", " ">>, <<"-">>, <<"x">>, <<" ">>, <<"nl">>, <<"c">>, <<"S">>}
MaxPieces == 5

RECURSIVE Concat(_)
Concat(ps) == IF ps = <<>> THEN <<>> ELSE Head(ps) \o Concat(Tail(ps))

RawResponses == {Concat(ps) : ps \in UNION {[1..n -> Pieces] : n \in 0..MaxPieces}}

IsSpace(ch) == ch \in {" ", "nl"}

\* re.sub(r"\[\d+\]", "", raw_response)
RemoveCitations(s) == SelectSeq(s, LAMBDA ch : ch # "c")

\* re.sub(r"Source: .*?$", "", response, flags=re.MULTILINE): from the
\* words to the end of the line.
RECURSIVE RemoveSources(_, _)
RemoveSources(s, inside) ==
    IF s = <<>> THEN <<>>
    ELSE IF Head(s) = "nl" THEN <<"nl">> \o RemoveSources(Tail(s), FALSE)
    ELSE IF inside \/ Head(s) = "S" THEN RemoveSources(Tail(s), TRUE)
    ELSE <<Head(s)>> \o RemoveSources(Tail(s), FALSE)

\* re.sub(r"([^\n])(- )", r"\1\n\2", response): the matches are taken
\* from the left and do not overlap.
RECURSIVE BreakBullets(_)
BreakBullets(s) ==
    IF Len(s) < 3 THEN s
    ELSE IF s[1] # "nl" /\ s[2] = "-" /\ s[3] = " "
    THEN <<s[1], "nl", "-", " ">> \o BreakBullets(SubSeq(s, 4, Len(s)))
    ELSE <<Head(s)>> \o BreakBullets(Tail(s))

\* re.sub(r"\s+", " ", response): every run of whitespace, newlines
\* included, becomes one space.
RECURSIVE CollapseSpace(_, _)
CollapseSpace(s, after_space) ==
    IF s = <<>> THEN <<>>
    ELSE IF IsSpace(Head(s))
    THEN (IF after_space THEN <<>> ELSE <<" ">>) \o CollapseSpace(Tail(s), TRUE)
    ELSE <<Head(s)>> \o CollapseSpace(Tail(s), FALSE)

\* str.strip() on these characters.
RECURSIVE StripSpace(_)
StripSpace(s) ==
    IF s # <<>> /\ IsSpace(Head(s)) THEN StripSpace(Tail(s))
    ELSE IF s # <<>> /\ IsSpace(s[Len(s)]) THEN StripSpace(SubSeq(s, 1, Len(s) - 1))
    ELSE s

\* response.split("\n"), each line stripped, the empty ones dropped,
\* "\n".join.
RECURSIVE JoinLines(_, _)
JoinLines(s, line) ==
    LET out == StripSpace(line)
    IN IF s = <<>> THEN out
       ELSE IF Head(s) = "nl"
       THEN LET rest == JoinLines(Tail(s), <<>>)
            IN IF out = <<>> THEN rest
               ELSE IF rest = <<>> THEN out
               ELSE out \o <<"nl">> \o rest
       ELSE JoinLines(Tail(s), Append(line, Head(s)))

_clean_response_text(raw_response) ==
    JoinLines(StripSpace(CollapseSpace(BreakBullets(
        RemoveSources(RemoveCitations(raw_response), FALSE)), FALSE)), <<>>)

InitClean ==
    /\ \E r \in RawResponses :
          unit = [pc |-> "call", raw_response |-> r, response |-> <<>>]
    /\ RestIdle

CleanReturn ==
    /\ unit.pc = "call"
    /\ unit' = [unit EXCEPT !.pc = "done",
                            !.response = _clean_response_text(unit.raw_response)]
    /\ UNCHANGED unitFrame

NextClean == CleanReturn

SpecClean == InitClean /\ [][NextClean]_vars

\* The list items of a text: the places where "- " starts a line.
ItemStarts(s) ==
    {i \in 1..(Len(s) - 1) : s[i] = "-" /\ s[i + 1] = " " /\ (i = 1 \/ s[i - 1] = "nl")}

\* C39: a reply with several list items, one per line, is returned with
\* one item per line.
C39_ListItemsKeepTheirLines ==
    unit.pc = "done" /\ Cardinality(ItemStarts(unit.raw_response)) >= 2 =>
       Cardinality(ItemStarts(unit.response)) = Cardinality(ItemStarts(unit.raw_response))

-----------------------------------------------------------------------------
\* ImageManager.save_image_from_base64 as get_new_messages calls it, one
\* image per poll.  The wall clock counts half seconds.

\* The last reading of the clock, and the images saved in a behaviour.
MaxClock == 8
MaxSaves == 3

\* int(time.time())
Seconds(t) == t \div 2

\* self.image_dir / f"{prefix}_{int(time.time())}.png", the prefix being
\* "whatsapp_image" in every call.
img_path(t) == <<"whatsapp_image", Seconds(t)>>

ImagePaths == {img_path(t) : t \in 0..MaxClock}

\* now: time.time(); slept: the poller has slept since the last save;
\* files: the image each path holds (0: no file); pending: the images
\* saved whose task has not read its file yet; saved: their number.
InitSave ==
    /\ unit = [pc |-> "run", now |-> 0, slept |-> TRUE,
               files |-> [q \in ImagePaths |-> 0], pending |-> {}, saved |-> 0]
    /\ RestIdle

\* _download_image saves the image found by the poll and the message is
\* handed to a new task.
SaveImage ==
    /\ unit.pc = "run"
    /\ unit.slept
    /\ unit.saved < MaxSaves
    /\ LET q == img_path(unit.now)
           image == unit.saved + 1
       IN unit' = [unit EXCEPT !.files[q] = image,
                               !.pending = @ \cup {[path |-> q, image |-> image]},
                               !.saved = image,
                               !.slept = FALSE]
    /\ UNCHANGED unitFrame

\* await asyncio.sleep(actual_delay): a second at least passes.
PollSleep ==
    /\ unit.pc = "run"
    /\ \E d \in 2..3 :
          /\ unit.now + d <= MaxClock
          /\ unit' = [unit EXCEPT !.now = @ + d, !.slept = TRUE]
    /\ UNCHANGED unitFrame

\* The system clock is set back: time.time() may return a lower value
\* than a previous call.
ClockSetBack ==
    /\ unit.pc = "run"
    /\ \E d \in 1..3 :
          /\ unit.now - d >= 0
          /\ unit' = [unit EXCEPT !.now = @ - d]
    /\ UNCHANGED unitFrame

\* The task that owns an image reads its file (compress_image, upload).
ConsumeImage ==
    /\ unit.pc = "run"
    /\ \E i \in unit.pending : unit' = [unit EXCEPT !.pending = @ \ {i}]
    /\ UNCHANGED unitFrame

NextSave ==
    \/ SaveImage
    \/ PollSleep
    \/ ClockSetBack
    \/ ConsumeImage

SpecSave == InitSave /\ [][NextSave]_vars

\* C40: the file of a saved image holds that image until the task that
\* owns it has read it: no later save writes to the same path.
C40_SavedImageKeepsItsFile ==
    unit.pc = "run" => \A i \in unit.pending : unit.files[i.path] = i.image

====
